---- MODULE Spec2Model ----
(***************************************************************************)
(* A model of the protocol normalisation layer of vogo/aimodel: the        *)
(* canonical Message / ToolCall merge (schema.go), the two SSE streaming   *)
(* decoders (openai_stream.go, anthropic_stream.go), the Stream session    *)
(* with its lock and closed flag (stream.go) and the dialect B non-stream  *)
(* response translator (anthropic.go).                                     *)
(*                                                                         *)
(* Strings are TLA+ strings (\o is concatenation).  Slices are sequences;  *)
(* a Go index i is position i + 1 of the sequence.                         *)
(***************************************************************************)
EXTENDS Integers, Sequences, FiniteSets, TLC

VARIABLES
  dialect,      \* "A" (openaiRecvFunc) or "B" (anthropicRecvFunc): which recv the Stream holds
  lines,        \* the body: the sequence of lines the underlying reader delivers
  pos,          \* bufio.Scanner: number of lines already returned by Scan
  buffered,     \* bufio.Scanner: number of lines already read from the reader into its buffer
  scanErr,      \* bufio.Scanner: "" | "eof" (reader exhausted) | "toolong" | "io" (sc.Err() for the last two)
  dec,          \* decoder state: captured msgID/model, and the position inside the recv loop
  closed,       \* Stream.closed (atomic.Bool)
  mu,           \* Stream.mu: the thread holding it, or NoThread
  readerClosed, \* number of reader.Close() calls made
  rpc,          \* the Recv caller's position
  cpc,          \* each Close caller's position
  results,      \* what each finished Recv call returned, in call order (with bookkeeping)
  call,         \* bookkeeping of the Recv call in progress (reads of the reader it began)
  flagAt,       \* where the Recv caller was when closed was first stored
  acc,          \* the Message the caller rebuilds with AppendDelta from the chunks
  turn,         \* dialect B turn under comparison (stream / non-stream)
  base,         \* the body before heartbeat lines were inserted
  pads,         \* number of heartbeat lines inserted
  steps,        \* the operations applied to acc so far, each with acc before and after it
  req,          \* the ChatRequest a call variant or a translator is given
  sent,         \* what the call made of req: the payload sent, or the error returned
  resp,         \* the vendor's response body of a non-streaming call
  got           \* what the non-streaming call returned for resp

vars == << dialect, lines, pos, buffered, scanErr, dec, closed, mu, readerClosed,
           rpc, cpc, results, call, flagAt, acc, turn, base, pads,
           steps, req, sent, resp, got >>

\* the variables of the merge log and of the request / response translators
translation == << steps, req, sent, resp, got >>

-----------------------------------------------------------------------------
(* Canonical model: schema.go *)

RoleAssistant == "assistant"

ZeroContent == [text |-> "", partsNil |-> TRUE, parts |-> << >>]

NewTextContent(text) == [ZeroContent EXCEPT !.text = text]

\* NewPartsContent(parts...); called with no argument the variadic slice is nil
NewPartsContent(parts) == [text |-> "", partsNil |-> parts = << >>, parts |-> parts]

\* Content.UnmarshalJSON(data) on the receiver c.  data is a JSON string, a
\* JSON array of parts (every element giving its type and text) or any other
\* JSON value (null, a number, an object); the first two decode into one
\* field and leave the other field as it was.
UnmarshalJSON(c, data) ==
  CASE data.kind = "string" -> [c EXCEPT !.text = data.text]
    [] data.kind = "array"  -> [c EXCEPT !.partsNil = FALSE, !.parts = data.parts]
    [] OTHER                -> [c EXCEPT !.text = "", !.partsNil = TRUE, !.parts = << >>]

\* MarshalJSON that writes the array only for a part list with elements
MarshalJSON_LenTest(c) ==
  IF Len(c.parts) > 0 THEN [kind |-> "array", text |-> "", parts |-> c.parts]
  ELSE [kind |-> "string", text |-> c.text, parts |-> << >>]

\* Content.MarshalJSON: the JSON array of the parts when parts is not nil,
\* the JSON string of text otherwise
MarshalJSON(c) ==
  IF ~c.partsNil THEN [kind |-> "array", text |-> "", parts |-> c.parts]
  ELSE [kind |-> "string", text |-> c.text, parts |-> << >>]

RECURSIVE TextOfParts(_)
TextOfParts(parts) ==
  IF parts = << >> THEN ""
  ELSE (IF Head(parts).type = "text" THEN Head(parts).text ELSE "")
         \o TextOfParts(Tail(parts))

ContentText(c) == IF c.partsNil THEN c.text ELSE TextOfParts(c.parts)

ZeroToolCall == [index |-> 0, id |-> "", type |-> "", name |-> "", arguments |-> ""]

ZeroMessage ==
  [role |-> "", content |-> ZeroContent, toolCallID |-> "", toolCalls |-> << >>]

\* Merge that replaces the arguments instead of appending to them
Merge_ReplaceArguments(tc, delta) ==
  [tc EXCEPT !.id        = IF delta.id # "" THEN delta.id ELSE @,
             !.type      = IF delta.type # "" THEN delta.type ELSE @,
             !.name      = IF delta.name # "" THEN delta.name ELSE @,
             !.arguments = delta.arguments]

\* Merge that puts the delta's arguments in front of the existing ones
Merge_PrependArguments(tc, delta) ==
  [tc EXCEPT !.id        = IF delta.id # "" THEN delta.id ELSE @,
             !.type      = IF delta.type # "" THEN delta.type ELSE @,
             !.name      = IF delta.name # "" THEN delta.name ELSE @,
             !.arguments = delta.arguments \o @]

\* Merge that always takes the delta's name
Merge_TakeName(tc, delta) ==
  [tc EXCEPT !.id        = IF delta.id # "" THEN delta.id ELSE @,
             !.type      = IF delta.type # "" THEN delta.type ELSE @,
             !.name      = delta.name,
             !.arguments = @ \o delta.arguments]

\* ToolCall.Merge
Merge(tc, delta) ==
  [tc EXCEPT !.id        = IF delta.id # "" THEN delta.id ELSE @,
             !.type      = IF delta.type # "" THEN delta.type ELSE @,
             !.name      = IF delta.name # "" THEN delta.name ELSE @,
             !.arguments = @ \o delta.arguments]

\* growth whose placeholders all carry Index 0
RECURSIVE GrowToolCalls_ZeroIndex(_, _)
GrowToolCalls_ZeroIndex(tcs, idx) ==
  IF idx >= Len(tcs)
    THEN GrowToolCalls_ZeroIndex(Append(tcs, ZeroToolCall), idx)
    ELSE tcs

\* growth whose placeholders carry the index of the delta
RECURSIVE GrowToolCalls_IndexOfDelta(_, _)
GrowToolCalls_IndexOfDelta(tcs, idx) ==
  IF idx >= Len(tcs)
    THEN GrowToolCalls_IndexOfDelta(Append(tcs, [ZeroToolCall EXCEPT !.index = idx]), idx)
    ELSE tcs

\* for idx >= len(m.ToolCalls) { append(ToolCall{Index: len(m.ToolCalls)}) }
RECURSIVE GrowToolCalls(_, _)
GrowToolCalls(tcs, idx) ==
  IF idx >= Len(tcs)
    THEN GrowToolCalls(Append(tcs, [ZeroToolCall EXCEPT !.index = Len(tcs)]), idx)
    ELSE tcs

\* the loop of AppendDelta over delta.ToolCalls.  A negative index makes
\* m.ToolCalls[idx] panic (see AppendDeltaPanics): the loop stops there and
\* the list stays as the earlier entries of the delta left it.
RECURSIVE MergeToolCalls(_, _)
MergeToolCalls(tcs, dtcs) ==
  IF dtcs = << >> \/ Head(dtcs).index < 0 THEN tcs
  ELSE LET dtc  == Head(dtcs)
           grown == GrowToolCalls(tcs, dtc.index)
       IN  MergeToolCalls([grown EXCEPT ![dtc.index + 1] = Merge(@, dtc)], Tail(dtcs))

AppendDeltaPanics(delta) ==
  \E i \in 1..Len(delta.toolCalls) : delta.toolCalls[i].index < 0

\* AppendDelta that takes a non-empty delta text in place of the text so far
AppendDelta_ReplaceText(m, delta) ==
  [m EXCEPT !.content.text = IF delta.content.text # "" THEN delta.content.text ELSE @,
            !.toolCalls    = MergeToolCalls(@, delta.toolCalls)]

\* AppendDelta that takes the role of a delta that carries one
AppendDelta_TakeRole(m, delta) ==
  [m EXCEPT !.role         = IF delta.role # "" THEN delta.role ELSE @,
            !.content.text = @ \o delta.content.text,
            !.toolCalls    = MergeToolCalls(@, delta.toolCalls)]

AppendDelta(m, delta) ==
  [m EXCEPT !.content.text = @ \o delta.content.text,
            !.toolCalls    = MergeToolCalls(@, delta.toolCalls)]

ZeroChoice == [index |-> 0, delta |-> ZeroMessage, finishNil |-> TRUE, finish |-> ""]

ZeroChunk == [id |-> "", model |-> "", choices |-> << >>]

-----------------------------------------------------------------------------
(* What Recv returns, a pair (chunk, error): kind "chunk" is a non-nil     *)
(* chunk with a nil error; every other kind is a nil chunk with that error. *)
(* term is bookkeeping: whether an io.EOF came from the terminator.         *)

ZeroResult ==
  [kind |-> "", chunk |-> ZeroChunk, statusCode |-> 0, code |-> "", message |-> "",
   type |-> "", what |-> "", term |-> FALSE]

ChunkResult(c)     == [ZeroResult EXCEPT !.kind = "chunk", !.chunk = c]
EOFResult(byTerm)  == [ZeroResult EXCEPT !.kind = "eof", !.term = byTerm]
DecodeError(what)  == [ZeroResult EXCEPT !.kind = "decodeErr", !.what = what]
ScanError(e)       == [ZeroResult EXCEPT !.kind = "scanErr", !.what = e]
ErrStreamClosed    == [ZeroResult EXCEPT !.kind = "closed"]
APIError(code, message, type) ==
  [ZeroResult EXCEPT !.kind = "apiErr", !.code = code, !.message = message, !.type = type]

-----------------------------------------------------------------------------
(* The wire.  A line is what sc.Text() returns: blank, a ':' comment, a     *)
(* "data: " line with its payload, an "event: " line with its name, any     *)
(* other line, or a line over maxStreamLineSize (Scan fails on it).         *)
(* A payload is the text after "data: ": the literal [DONE], text that is   *)
(* no JSON object, or a JSON object given by the fields the decoders read   *)
(* (an absent field is its zero value, unknown fields are ignored).         *)

ZeroJSON ==
  [raw |-> "obj",
   id |-> "", model |-> "", choices |-> << >>,                  \* StreamChunk
   hasError |-> FALSE, errCode |-> "", errMessage |-> "", errType |-> "",  \* error{}
   msgID |-> "", msgModel |-> "",                               \* message{id, model}
   index |-> 0, cbType |-> "", cbID |-> "", cbName |-> "",      \* index, content_block{}
   dType |-> "", dText |-> "", dPartialJSON |-> "",             \* delta{type,text,partial_json}
   stopReason |-> ""]                                           \* delta{stop_reason}

BlankLine     == [k |-> "blank",   e |-> "", p |-> ZeroJSON]
CommentLine   == [k |-> "comment", e |-> "", p |-> ZeroJSON]
OtherLine     == [k |-> "other",   e |-> "", p |-> ZeroJSON]
TooLongLine   == [k |-> "toolong", e |-> "", p |-> ZeroJSON]
DataLine(p)   == [k |-> "data",    e |-> "", p |-> p]
EventLine(e)  == [k |-> "event",   e |-> e,  p |-> ZeroJSON]

DonePayload == [ZeroJSON EXCEPT !.raw = "done"]
BadPayload  == [ZeroJSON EXCEPT !.raw = "bad"]

-----------------------------------------------------------------------------
(* The decoders, one scanned line at a time.  dec is the decoder's state:   *)
(* msgID and model are the closure variables of anthropicRecvFunc; inData   *)
(* and eventType are the locals of the call in progress (inData: the inner  *)
(* loop that looks for the event's data line is running).                   *)

ZeroDec == [msgID |-> "", model |-> "", inData |-> FALSE, eventType |-> ""]

\* the locals are gone when recv returns
\* LeaveCall of a decoder whose captured id and model live for one call only
LeaveCall_DropID(st) ==
  [st EXCEPT !.inData = FALSE, !.eventType = "", !.msgID = "", !.model = ""]

LeaveCall(st) == [st EXCEPT !.inData = FALSE, !.eventType = ""]

Continue(st)    == [st |-> st, ret |-> FALSE, res |-> ZeroResult]
Return(st, res) == [st |-> LeaveCall(st), ret |-> TRUE, res |-> res]

\* openaiLine that parses the payload before looking for the sentinel
openaiLine_ParseFirst(st, line) ==
  IF line.k \in {"blank", "comment"} THEN Continue(st)
  ELSE IF line.k # "data" THEN Continue(st)
  ELSE IF line.p.raw # "obj" THEN Return(st, DecodeError("stream chunk"))
  ELSE IF line.p.hasError
    THEN Return(st, APIError(line.p.errCode, line.p.errMessage, line.p.errType))
  ELSE Return(st, ChunkResult([id |-> line.p.id, model |-> line.p.model,
                               choices |-> line.p.choices]))

\* openaiLine that raises the error object only when the payload has no choices
openaiLine_ChunkFirst(st, line) ==
  IF line.k \in {"blank", "comment"} THEN Continue(st)
  ELSE IF line.k # "data" THEN Continue(st)
  ELSE IF line.p.raw = "done" THEN Return(st, EOFResult(TRUE))
  ELSE IF line.p.raw = "bad" THEN Return(st, DecodeError("stream chunk"))
  ELSE IF line.p.hasError /\ line.p.choices = << >>
    THEN Return(st, APIError(line.p.errCode, line.p.errMessage, line.p.errType))
  ELSE Return(st, ChunkResult([id |-> line.p.id, model |-> line.p.model,
                               choices |-> line.p.choices]))

\* one iteration of the loop of openaiRecvFunc
openaiLine(st, line) ==
  IF line.k \in {"blank", "comment"} THEN Continue(st)
  ELSE IF line.k # "data" THEN Continue(st)
  ELSE IF line.p.raw = "done" THEN Return(st, EOFResult(TRUE))
  ELSE IF line.p.raw = "bad" THEN Return(st, DecodeError("stream chunk"))
  ELSE IF line.p.hasError
    THEN Return(st, APIError(line.p.errCode, line.p.errMessage, line.p.errType))
  ELSE Return(st, ChunkResult([id |-> line.p.id, model |-> line.p.model,
                               choices |-> line.p.choices]))

\* a mapping that passes every stop reason through
mapAnthropicStopReason_PassThrough(reason) == reason

mapAnthropicStopReason(reason) ==
  CASE reason \in {"end_turn", "stop_sequence"} -> "stop"
    [] reason = "max_tokens" -> "length"
    [] reason = "tool_use" -> "tool_calls"
    [] OTHER -> reason

\* the switch of anthropicRecvFunc on eventType, data being the payload p
anthropicEvent(st, eventType, p) ==
  LET out == [st EXCEPT !.inData = FALSE, !.eventType = ""]
      parsed == p.raw = "obj"
  IN
  CASE eventType = "message_start" ->
         IF ~parsed THEN Return(out, DecodeError("message_start"))
         ELSE Continue([out EXCEPT !.msgID = p.msgID, !.model = p.msgModel])
    [] eventType = "content_block_start" ->
         IF ~parsed THEN Return(out, DecodeError("content_block_start"))
         ELSE IF p.cbType = "tool_use"
           THEN Return(out, ChunkResult(
                  [id |-> st.msgID, model |-> st.model,
                   choices |-> << [ZeroChoice EXCEPT
                      !.delta = [ZeroMessage EXCEPT
                         !.role = RoleAssistant,
                         !.toolCalls = << [ZeroToolCall EXCEPT
                             !.index = p.index, !.id = p.cbID,
                             !.type = "function", !.name = p.cbName] >>]] >>]))
         ELSE Continue(out)
    [] eventType = "content_block_delta" ->
         IF ~parsed THEN Return(out, DecodeError("content_block_delta"))
         ELSE IF p.dType = "text_delta"
           THEN Return(out, ChunkResult(
                  [id |-> st.msgID, model |-> st.model,
                   choices |-> << [ZeroChoice EXCEPT
                      !.delta = [ZeroMessage EXCEPT
                         !.content = NewTextContent(p.dText)]] >>]))
         ELSE IF p.dType = "input_json_delta"
           THEN Return(out, ChunkResult(
                  [id |-> st.msgID, model |-> st.model,
                   choices |-> << [ZeroChoice EXCEPT
                      !.delta = [ZeroMessage EXCEPT
                         !.toolCalls = << [ZeroToolCall EXCEPT
                             !.index = p.index,
                             !.arguments = p.dPartialJSON] >>]] >>]))
         ELSE Continue(out)
    [] eventType = "message_delta" ->
         IF ~parsed THEN Return(out, DecodeError("message_delta"))
         ELSE Return(out, ChunkResult(
                  [id |-> st.msgID, model |-> st.model,
                   choices |-> << [ZeroChoice EXCEPT
                      !.finishNil = FALSE,
                      !.finish = mapAnthropicStopReason(p.stopReason)] >>]))
    [] eventType = "message_stop" -> Return(out, EOFResult(TRUE))
    [] eventType = "error" ->
         IF ~parsed THEN Return(out, DecodeError("stream error"))
         ELSE Return(out, APIError("", p.errMessage, p.errType))
    [] eventType \in {"ping", "content_block_stop"} -> Continue(out)
    [] OTHER -> Continue(out)

\* anthropicLine that handles the events named a as events named b
anthropicLine_Renamed(st, line, a, b) ==
  IF ~st.inData
    THEN IF line.k \in {"blank", "comment"} THEN Continue(st)
         ELSE IF line.k # "event" THEN Continue(st)
         ELSE Continue([st EXCEPT !.inData = TRUE, !.eventType = line.e])
    ELSE IF line.k \in {"blank", "comment"} THEN Continue(st)
         ELSE IF line.k = "data"
           THEN anthropicEvent(st, IF st.eventType = a THEN b ELSE st.eventType, line.p)
         ELSE Continue([st EXCEPT !.inData = FALSE, !.eventType = ""])

\* anthropicLine that ignores content_block_start events
anthropicLine_StartIgnored(st, line) ==
  anthropicLine_Renamed(st, line, "content_block_start", "ping")

\* anthropicLine that ignores content_block_delta events
anthropicLine_DeltaIgnored(st, line) ==
  anthropicLine_Renamed(st, line, "content_block_delta", "ping")

\* anthropicLine that ignores message_delta events
anthropicLine_StopIgnored(st, line) ==
  anthropicLine_Renamed(st, line, "message_delta", "ping")

\* anthropicLine that ignores error events
anthropicLine_ErrorIgnored(st, line) ==
  anthropicLine_Renamed(st, line, "error", "ping")

\* anthropicLine that ends the stream at a ping event
anthropicLine_PingStops(st, line) ==
  anthropicLine_Renamed(st, line, "ping", "message_stop")

\* anthropicLine that takes the data line only from the line right after the event line
anthropicLine_NoSkip(st, line) ==
  IF ~st.inData
    THEN IF line.k \in {"blank", "comment"} THEN Continue(st)
         ELSE IF line.k # "event" THEN Continue(st)
         ELSE Continue([st EXCEPT !.inData = TRUE, !.eventType = line.e])
    ELSE IF line.k = "data" THEN anthropicEvent(st, st.eventType, line.p)
         ELSE Continue([st EXCEPT !.inData = FALSE, !.eventType = ""])

\* one sc.Scan() of anthropicRecvFunc that returned a line: in the outer loop
\* (looking for an event line) or in the inner one (looking for its data)
anthropicLine(st, line) ==
  IF ~st.inData
    THEN IF line.k \in {"blank", "comment"} THEN Continue(st)
         ELSE IF line.k # "event" THEN Continue(st)
         ELSE Continue([st EXCEPT !.inData = TRUE, !.eventType = line.e])
    ELSE IF line.k \in {"blank", "comment"} THEN Continue(st)
         ELSE IF line.k = "data" THEN anthropicEvent(st, st.eventType, line.p)
         \* non-data, non-comment field: break with data == nil, continue
         ELSE Continue([st EXCEPT !.inData = FALSE, !.eventType = ""])

DecodeLine(d, st, line) ==
  IF d = "A" THEN openaiLine(st, line) ELSE anthropicLine(st, line)

\* ScanEnd that reports the end of the body as an error too
ScanEnd_EOFIsError(err) == ScanError(err)

\* ScanEnd that returns a nil chunk and a nil error at the end of the body
ScanEnd_NilNil(err) ==
  IF err \in {"toolong", "io"} THEN ScanError(err) ELSE ZeroResult

\* sc.Scan() returned false: `if err := sc.Err(); err != nil { return nil, err }; return nil, io.EOF`
ScanEnd(err) ==
  IF err \in {"toolong", "io"} THEN ScanError(err) ELSE EOFResult(FALSE)

\* recvLoop that leaves the scanner on the line that made recv return
RECURSIVE recvLoop_Retry(_, _, _, _, _)
recvLoop_Retry(d, ls, p, err, st) ==
  IF err # "" THEN [pos |-> p, err |-> err, st |-> LeaveCall(st), res |-> ScanEnd(err)]
  ELSE IF p >= Len(ls)
    THEN [pos |-> p, err |-> "eof", st |-> LeaveCall(st), res |-> ScanEnd("eof")]
  ELSE IF ls[p + 1].k = "toolong"
    THEN [pos |-> p, err |-> "toolong", st |-> LeaveCall(st), res |-> ScanEnd("toolong")]
  ELSE LET step == DecodeLine(d, st, ls[p + 1])
       IN  IF step.ret
             THEN [pos |-> IF step.res.kind = "chunk" THEN p + 1 ELSE p,
                   err |-> "", st |-> step.st, res |-> step.res]
             ELSE recvLoop_Retry(d, ls, p + 1, err, step.st)

\* recvLoop that takes a blank line for the end of the body
RECURSIVE recvLoop_StopAtBlank(_, _, _, _, _)
recvLoop_StopAtBlank(d, ls, p, err, st) ==
  IF err # "" THEN [pos |-> p, err |-> err, st |-> LeaveCall(st), res |-> ScanEnd(err)]
  ELSE IF p >= Len(ls) \/ ls[p + 1].k = "blank"
    THEN [pos |-> p, err |-> "eof", st |-> LeaveCall(st), res |-> ScanEnd("eof")]
  ELSE IF ls[p + 1].k = "toolong"
    THEN [pos |-> p, err |-> "toolong", st |-> LeaveCall(st), res |-> ScanEnd("toolong")]
  ELSE LET step == DecodeLine(d, st, ls[p + 1])
       IN  IF step.ret
             THEN [pos |-> p + 1, err |-> "", st |-> step.st, res |-> step.res]
             ELSE recvLoop_StopAtBlank(d, ls, p + 1, err, step.st)

\* a whole recv() over a body that is entirely available: scan lines from
\* position p until a line makes recv return or Scan returns false
RECURSIVE recvLoop(_, _, _, _, _)
recvLoop(d, ls, p, err, st) ==
  IF err # "" THEN [pos |-> p, err |-> err, st |-> LeaveCall(st), res |-> ScanEnd(err)]
  ELSE IF p >= Len(ls)
    THEN [pos |-> p, err |-> "eof", st |-> LeaveCall(st), res |-> ScanEnd("eof")]
  ELSE IF ls[p + 1].k = "toolong"
    THEN [pos |-> p, err |-> "toolong", st |-> LeaveCall(st), res |-> ScanEnd("toolong")]
  ELSE LET step == DecodeLine(d, st, ls[p + 1])
       IN  IF step.ret
             THEN [pos |-> p + 1, err |-> "", st |-> step.st, res |-> step.res]
             ELSE recvLoop(d, ls, p + 1, err, step.st)

-----------------------------------------------------------------------------
(* Bodies are built from frames (one or two lines each).                    *)

RECURSIVE Flatten(_)
Flatten(frames) ==
  IF frames = << >> THEN << >> ELSE Head(frames) \o Flatten(Tail(frames))

\* all bodies made of at most n frames of the set fs
Bodies(fs, n) == { Flatten(b) : b \in UNION { [1..k -> fs] : k \in 0..n } }

TextChoice(text) ==
  [ZeroChoice EXCEPT !.delta = [ZeroMessage EXCEPT !.content = NewTextContent(text)]]

\* data: {"id":"1","model":"gpt","choices":[{"index":0,"delta":{"content":text}}]}
ChunkLineA(text) ==
  DataLine([ZeroJSON EXCEPT !.id = "1", !.model = "gpt", !.choices = << TextChoice(text) >>])

DoneLine == DataLine(DonePayload)

\* event: content_block_delta / data: {"index":i,"delta":{"type":"text_delta","text":text}}
TextDeltaFrame(i, text) ==
  << EventLine("content_block_delta"),
     DataLine([ZeroJSON EXCEPT !.index = i, !.dType = "text_delta", !.dText = text]) >>

\* event: message_stop / data: {"type":"message_stop"}
MessageStopFrame == << EventLine("message_stop"), DataLine(ZeroJSON) >>

-----------------------------------------------------------------------------
(* The Stream session (stream.go): one Recv caller, NumClosers Close        *)
(* callers, the lock and the closed flag.  The reader delivers the body in  *)
(* reads of one or more lines; a read can also fail (transport error).      *)

MaxSessionFrames == 2
MaxRecv == 3
NumClosers == 2

NoThread == -1
RecvThread == 0
Closers == 1..NumClosers

SessionFrames(d) ==
  IF d = "A" THEN { << ChunkLineA("Hi") >>, << DoneLine >> }
  ELSE { TextDeltaFrame(0, "Hi"), MessageStopFrame }

NoCall == [reads |-> 0, readsClosed |-> 0, closeReturned |-> FALSE]
NoFlag == [set |-> FALSE, call |-> 0, pc |-> ""]
NoTurn == << >>
NoValue == [kind |-> "none"]

InitTranslation ==
  steps = << >> /\ req = NoValue /\ sent = NoValue /\ resp = NoValue /\ got = NoValue

InitSession ==
  /\ dialect \in {"A", "B"}
  /\ lines \in Bodies(SessionFrames(dialect), MaxSessionFrames)
  /\ pos = 0 /\ buffered = 0 /\ scanErr = "" /\ dec = ZeroDec
  /\ closed = FALSE /\ mu = NoThread /\ readerClosed = 0
  /\ rpc = "idle" /\ cpc = [c \in Closers |-> "idle"]
  /\ results = << >> /\ call = NoCall /\ flagAt = NoFlag
  /\ acc = ZeroMessage /\ turn = NoTurn /\ base = << >> /\ pads = 0
  /\ InitTranslation

unusedSession == << acc, turn, base, pads, dialect, lines, steps, req, sent, resp, got >>

\* Recv returns res; the deferred s.mu.Unlock() runs when the lock is held
RecvReturn(res, locked) ==
  /\ results' = Append(results, [res |-> res, reads |-> call.reads,
                                 readsClosed |-> call.readsClosed,
                                 closeReturned |-> call.closeReturned, held |-> mu])
  /\ rpc' = "idle"
  /\ mu' = IF locked THEN NoThread ELSE mu

\* RecvBegin that takes the lock before its first test of the flag
RecvBegin_LockFirst ==
  /\ rpc = "idle" /\ Len(results) < MaxRecv /\ mu = NoThread
  /\ LET c == [NoCall EXCEPT !.closeReturned = \E t \in Closers : cpc[t] = "done"]
     IN  IF closed
           THEN /\ results' = Append(results, [res |-> ErrStreamClosed, reads |-> 0,
                                  readsClosed |-> 0, closeReturned |-> c.closeReturned,
                                  held |-> mu])
                /\ UNCHANGED << rpc, call >>
           ELSE /\ rpc' = "lock" /\ call' = c /\ UNCHANGED results
  /\ UNCHANGED << pos, buffered, scanErr, dec, closed, mu, readerClosed, cpc, flagAt >>
  /\ UNCHANGED unusedSession

\* Recv is called: `if s.closed.Load() { return nil, ErrStreamClosed }`.  held
\* records who holds the lock when the call returns.
RecvBegin ==
  /\ rpc = "idle" /\ Len(results) < MaxRecv
  /\ LET c == [NoCall EXCEPT !.closeReturned = \E t \in Closers : cpc[t] = "done"]
     IN  IF closed
           THEN /\ results' = Append(results, [res |-> ErrStreamClosed, reads |-> 0,
                                  readsClosed |-> 0, closeReturned |-> c.closeReturned,
                                  held |-> mu])
                /\ UNCHANGED << rpc, call >>
           ELSE /\ rpc' = "lock" /\ call' = c /\ UNCHANGED results
  /\ UNCHANGED << pos, buffered, scanErr, dec, closed, mu, readerClosed, cpc, flagAt >>
  /\ UNCHANGED unusedSession

\* RecvLock that does not wait for the lock
RecvLock_NoWait ==
  /\ rpc = "lock"
  /\ mu' = RecvThread /\ rpc' = "check2"
  /\ UNCHANGED << pos, buffered, scanErr, dec, closed, readerClosed, cpc, results, call, flagAt >>
  /\ UNCHANGED unusedSession

\* s.mu.Lock()
RecvLock ==
  /\ rpc = "lock" /\ mu = NoThread
  /\ mu' = RecvThread /\ rpc' = "check2"
  /\ UNCHANGED << pos, buffered, scanErr, dec, closed, readerClosed, cpc, results, call, flagAt >>
  /\ UNCHANGED unusedSession

\* RecvCheck2 without the second test of the flag
RecvCheck2_NoTest ==
  /\ rpc = "check2"
  /\ rpc' = "scan" /\ UNCHANGED << results, mu >>
  /\ UNCHANGED << pos, buffered, scanErr, dec, closed, readerClosed, cpc, call, flagAt >>
  /\ UNCHANGED unusedSession

\* the second `if s.closed.Load() { return nil, ErrStreamClosed }`, then s.recv()
RecvCheck2 ==
  /\ rpc = "check2"
  /\ IF closed THEN RecvReturn(ErrStreamClosed, TRUE)
               ELSE rpc' = "scan" /\ UNCHANGED << results, mu >>
  /\ UNCHANGED << pos, buffered, scanErr, dec, closed, readerClosed, cpc, call, flagAt >>
  /\ UNCHANGED unusedSession

\* one sc.Scan() of the recv loop, and the loop body for the line it returns;
\* with no complete line in the buffer the scanner calls reader.Read
RecvScan ==
  /\ rpc = "scan"
  /\ IF scanErr # ""
       THEN /\ RecvReturn(ScanEnd(scanErr), TRUE)
            /\ dec' = LeaveCall(dec)
            /\ UNCHANGED << pos, scanErr, call >>
     ELSE IF pos = buffered
       THEN /\ rpc' = "read"
            /\ call' = [call EXCEPT !.reads = @ + 1,
                                    !.readsClosed = @ + (IF closed THEN 1 ELSE 0)]
            /\ UNCHANGED << pos, scanErr, dec, results, mu >>
     ELSE IF lines[pos + 1].k = "toolong"
       THEN /\ scanErr' = "toolong"
            /\ RecvReturn(ScanEnd("toolong"), TRUE)
            /\ dec' = LeaveCall(dec)
            /\ UNCHANGED << pos, call >>
     ELSE LET step == DecodeLine(dialect, dec, lines[pos + 1])
          IN  /\ pos' = pos + 1
              /\ dec' = step.st
              /\ IF step.ret THEN RecvReturn(step.res, TRUE)
                             ELSE UNCHANGED << rpc, results, mu >>
              /\ UNCHANGED << scanErr, call >>
  /\ UNCHANGED << buffered, closed, readerClosed, cpc, flagAt >>
  /\ UNCHANGED unusedSession

\* reader.Read returns k more lines
ReadData ==
  /\ rpc = "read" /\ readerClosed = 0
  /\ \E k \in 1..(Len(lines) - buffered) : buffered' = buffered + k
  /\ rpc' = "scan"
  /\ UNCHANGED << pos, scanErr, dec, closed, mu, readerClosed, cpc, results, call, flagAt >>
  /\ UNCHANGED unusedSession

\* reader.Read returns io.EOF: the body is exhausted
ReadEOF ==
  /\ rpc = "read" /\ readerClosed = 0 /\ buffered = Len(lines)
  /\ scanErr' = "eof" /\ rpc' = "scan"
  /\ UNCHANGED << pos, buffered, dec, closed, mu, readerClosed, cpc, results, call, flagAt >>
  /\ UNCHANGED unusedSession

\* reader.Read returns an error: the transport failed or was cancelled (or
\* the reader had been closed)
ReadFail ==
  /\ rpc = "read"
  /\ scanErr' = "io" /\ rpc' = "scan"
  /\ UNCHANGED << pos, buffered, dec, closed, mu, readerClosed, cpc, results, call, flagAt >>
  /\ UNCHANGED unusedSession

\* CloseStore that forgets to store the flag
CloseStore_NoStore(c) ==
  /\ cpc[c] = "idle"
  /\ cpc' = [cpc EXCEPT ![c] = "lock"]
  /\ flagAt' = IF flagAt.set THEN flagAt
               ELSE [set |-> TRUE, call |-> Len(results), pc |-> rpc]
  /\ UNCHANGED << pos, buffered, scanErr, dec, mu, readerClosed, rpc, results, call, closed >>
  /\ UNCHANGED unusedSession

\* Close: s.closed.Store(true)
CloseStore(c) ==
  /\ cpc[c] = "idle"
  /\ closed' = TRUE
  /\ cpc' = [cpc EXCEPT ![c] = "lock"]
  /\ flagAt' = IF flagAt.set THEN flagAt
               ELSE [set |-> TRUE, call |-> Len(results), pc |-> rpc]
  /\ UNCHANGED << pos, buffered, scanErr, dec, mu, readerClosed, rpc, results, call >>
  /\ UNCHANGED unusedSession

\* CloseLock that does not wait for the lock
CloseLock_NoWait(c) ==
  /\ cpc[c] = "lock"
  /\ mu' = c
  /\ cpc' = [cpc EXCEPT ![c] = "close"]
  /\ UNCHANGED << pos, buffered, scanErr, dec, closed, readerClosed, rpc, results, call, flagAt >>
  /\ UNCHANGED unusedSession

\* Close: s.mu.Lock()
CloseLock(c) ==
  /\ cpc[c] = "lock" /\ mu = NoThread
  /\ mu' = c
  /\ cpc' = [cpc EXCEPT ![c] = "close"]
  /\ UNCHANGED << pos, buffered, scanErr, dec, closed, readerClosed, rpc, results, call, flagAt >>
  /\ UNCHANGED unusedSession

\* CloseReader that returns without closing the reader
CloseReader_NoClose(c) ==
  /\ cpc[c] = "close"
  /\ mu' = NoThread
  /\ cpc' = [cpc EXCEPT ![c] = "done"]
  /\ UNCHANGED << pos, buffered, scanErr, dec, closed, rpc, results, call, flagAt, readerClosed >>
  /\ UNCHANGED unusedSession

\* Close: `return s.reader.Close()` and the deferred s.mu.Unlock()
CloseReader(c) ==
  /\ cpc[c] = "close"
  /\ readerClosed' = readerClosed + 1
  /\ mu' = NoThread
  /\ cpc' = [cpc EXCEPT ![c] = "done"]
  /\ UNCHANGED << pos, buffered, scanErr, dec, closed, rpc, results, call, flagAt >>
  /\ UNCHANGED unusedSession

Next ==
  \/ RecvBegin \/ RecvLock \/ RecvCheck2 \/ RecvScan
  \/ ReadData \/ ReadEOF \/ ReadFail
  \/ \E c \in Closers : CloseStore(c) \/ CloseLock(c) \/ CloseReader(c)

Spec == InitSession /\ [][Next]_vars

-----------------------------------------------------------------------------
(* Claims about the session.                                                *)

\* the calls that were in flight when the flag was first stored, or began later
SinceFlag == (flagAt.call + 1)..Len(results)

\* C2 as stated: when Close stores the flag while a Recv is in flight, that
\* Recv and every later one report ErrStreamClosed, and none of them begins
\* a read of the reader with the flag set.
C2_InFlightReportsClosed ==
  (flagAt.set /\ flagAt.pc # "idle") =>
     /\ \A i \in SinceFlag :
          results[i].res = ErrStreamClosed /\ results[i].readsClosed = 0
     /\ (rpc # "idle" => call.readsClosed = 0)

\* C2 amended: a Recv that tests the flag after Close stored it (on entry, or
\* after acquiring the lock) and every later Recv report ErrStreamClosed and
\* begin no read; only the Recv that had passed both tests when the flag was
\* stored goes on decoding.
C2_ClosedOnceTested ==
  flagAt.set =>
     /\ \A i \in SinceFlag :
          \/ i = flagAt.call + 1 /\ flagAt.pc \in {"scan", "read"}
          \/ results[i].res = ErrStreamClosed /\ results[i].reads = 0
     /\ rpc \in {"scan", "read"} =>
          Len(results) = flagAt.call /\ flagAt.pc \in {"scan", "read"}

\* a Recv waiting for the lock when the flag was stored returned
\* ErrStreamClosed, and so did a later call
C2_Witness ==
  /\ flagAt.set /\ flagAt.pc \in {"lock", "check2"}
  /\ Len(results) >= flagAt.call + 2
  /\ results[flagAt.call + 1].res = ErrStreamClosed
  /\ pos < Len(lines)

\* C3: every Recv that begins after a Close has returned gives a nil chunk
\* with ErrStreamClosed and reads nothing, whatever is unread; the closed
\* flag is never reset.
C3_State ==
  /\ \A i \in 1..Len(results) :
       results[i].closeReturned =>
          results[i].res = ErrStreamClosed /\ results[i].reads = 0
  /\ (rpc # "idle" => ~call.closeReturned)

C3_RecvAfterClose == [] C3_State /\ [][closed => closed']_vars

C3_Witness ==
  \E i \in 1..Len(results) :
     results[i].closeReturned /\ pos < Len(lines) /\ dialect = "B"

\* C4 as stated: once Recv has returned io.EOF for the terminator the reader
\* has been closed.
C4_TerminatorClosesReader ==
  \A i \in 1..Len(results) : results[i].res = EOFResult(TRUE) => readerClosed > 0

\* C4 amended: the reader is closed by Close and by nothing else: once a
\* Close has returned it has been closed, and reader.Close is called exactly
\* once per finished Close (Recv never calls it, also not on the terminator).
C4_ReaderClosedByClose ==
  /\ (\E c \in Closers : cpc[c] = "done") => readerClosed > 0
  /\ readerClosed = Cardinality({c \in Closers : cpc[c] = "done"})

\* the terminator was received, the reader is open, and a Close then closes it
C4_Witness ==
  /\ \E i \in 1..Len(results) : results[i].res = EOFResult(TRUE) /\ ~results[i].closeReturned
  /\ \E c \in Closers : cpc[c] = "done"
  /\ readerClosed > 0

\* C27: the decoder's read of the underlying reader (the Recv caller inside
\* s.recv(), scanning or blocked in reader.Read) and a call of reader.Close
\* never run at the same time; each runs only while its thread holds the lock.
C27_ReadCloseExclusive ==
  /\ ~(rpc \in {"scan", "read"} /\ \E c \in Closers : cpc[c] = "close")
  /\ rpc \in {"check2", "scan", "read"} => mu = RecvThread
  /\ \A c \in Closers : cpc[c] = "close" => mu = c
  /\ \A c \in Closers : \A d \in Closers : (cpc[c] = "close" /\ cpc[d] = "close") => c = d

\* the Recv caller is blocked in reader.Read while both Close callers wait
\* for the lock
C27_Witness ==
  /\ rpc = "read" /\ mu = RecvThread
  /\ \A c \in Closers : cpc[c] = "lock"

\* C28: a Recv that begins when the closed flag is set returns
\* ErrStreamClosed in that step, without touching the lock and without a
\* read; it can do so whoever holds the lock.
C28_ClosedRecvTakesNoLock ==
  /\ [] ((rpc = "idle" /\ closed /\ Len(results) < MaxRecv) => ENABLED RecvBegin)
  /\ [][(rpc = "idle" /\ closed /\ results' # results) =>
          /\ rpc' = "idle" /\ mu' = mu
          /\ Len(results') = Len(results) + 1
          /\ results'[Len(results')].res = ErrStreamClosed
          /\ results'[Len(results')].reads = 0]_vars

\* a Recv returned ErrStreamClosed while a Close caller held the lock, that
\* caller being still inside reader.Close
C28_Witness ==
  /\ results # << >>
  /\ results[Len(results)].res = ErrStreamClosed
  /\ results[Len(results)].held \in Closers
  /\ cpc[results[Len(results)].held] = "close"

\* the Recv call during which the closed flag was first stored is the call
\* in progress, and it was inside reader.Read when the flag was stored
ReadPendingAtClose ==
  /\ flagAt.set /\ flagAt.pc = "read"
  /\ rpc # "idle" /\ Len(results) = flagAt.call

\* C29: while the Recv that was blocked in reader.Read when Close was issued
\* has not returned, no Close has called reader.Close and none has returned:
\* the Recv caller still holds the lock, and it leaves the read only when the
\* reader returns (data, end of body or a transport error).
C29_CloseWaitsForRead ==
  ReadPendingAtClose =>
    /\ readerClosed = 0
    /\ \A c \in Closers : cpc[c] \in {"idle", "lock"}
    /\ mu = RecvThread

\* the Recv is still blocked in the read it was in when Close was issued,
\* and every Close caller waits for the lock
C29_Witness ==
  /\ ReadPendingAtClose /\ rpc = "read"
  /\ \A c \in Closers : cpc[c] = "lock"
  /\ Len(results) >= 1

-----------------------------------------------------------------------------
(* Sequential use (the loop of examples/stream/main.go and of the tests):   *)
(* the body is an in-memory reader, one caller calls Recv, merges each      *)
(* chunk's first delta into acc, and may call Close.                        *)

MaxFrames == 3
MaxNonChunk == 2

ErrorObj(p) == [p EXCEPT !.hasError = TRUE, !.errCode = "rate_limit_exceeded",
                         !.errMessage = "Rate limit exceeded", !.errType = "tokens"]

\* data: {"error":{...},"id":"1","choices":[...]}: an error object beside chunk fields
ErrorLineA == DataLine(ErrorObj(ChunkLineA("x").p))

\* event: message_start / data: {"message":{"id":"msg_1","model":"claude"}}
MessageStartFrame ==
  << EventLine("message_start"),
     DataLine([ZeroJSON EXCEPT !.msgID = "msg_1", !.msgModel = "claude"]) >>

\* event: content_block_start / data: {"index":i,"content_block":{"type":t,"id":id,"name":name}}
BlockStartFrame(i, t, id, name) ==
  << EventLine("content_block_start"),
     DataLine([ZeroJSON EXCEPT !.index = i, !.cbType = t, !.cbID = id, !.cbName = name]) >>

\* event: content_block_delta / data: {"index":i,"delta":{"type":"input_json_delta","partial_json":f}}
JsonDeltaFrame(i, f) ==
  << EventLine("content_block_delta"),
     DataLine([ZeroJSON EXCEPT !.index = i, !.dType = "input_json_delta",
                               !.dPartialJSON = f]) >>

\* event: content_block_stop / data: {"index":i}
BlockStopFrame(i) ==
  << EventLine("content_block_stop"), DataLine([ZeroJSON EXCEPT !.index = i]) >>

\* event: message_delta / data: {"delta":{"stop_reason":r}}
MessageDeltaFrame(r) ==
  << EventLine("message_delta"), DataLine([ZeroJSON EXCEPT !.stopReason = r]) >>

\* event: error / data: {"type":"error","error":{"type":"overloaded_error","message":"Overloaded"}}
ErrorFrameB ==
  << EventLine("error"),
     DataLine([ZeroJSON EXCEPT !.hasError = TRUE, !.errType = "overloaded_error",
                               !.errMessage = "Overloaded"]) >>

RecvFrames(d) ==
  IF d = "A"
    THEN { << ChunkLineA("a") >>, << ChunkLineA("b") >>, << DoneLine >>,
           << DataLine(BadPayload) >>, << ErrorLineA >>,
           << BlankLine >>, << CommentLine >>, << OtherLine >>, << TooLongLine >> }
    ELSE { MessageStartFrame, TextDeltaFrame(0, "a"),
           BlockStartFrame(1, "tool_use", "toolu_1", "get_weather"),
           MessageDeltaFrame("end_turn"), MessageStopFrame, ErrorFrameB,
           << EventLine("content_block_delta"), DataLine(BadPayload) >>,
           << EventLine("ping") >>, << DataLine(ZeroJSON) >>,
           << BlankLine >>, << CommentLine >>, << TooLongLine >> }

InitCaller ==
  /\ pos = 0 /\ buffered = Len(lines) /\ scanErr = "" /\ dec = ZeroDec
  /\ closed = FALSE /\ mu = NoThread /\ readerClosed = 0
  /\ rpc = "idle" /\ cpc = [c \in Closers |-> "idle"]
  /\ results = << >> /\ call = NoCall /\ flagAt = NoFlag
  /\ acc = ZeroMessage /\ base = << >> /\ pads = 0
  /\ InitTranslation

InitRecv ==
  /\ dialect \in {"A", "B"}
  /\ lines \in Bodies(RecvFrames(dialect), MaxFrames)
  /\ turn = NoTurn
  /\ InitCaller

NonChunks(rs) == Cardinality({i \in 1..Len(rs) : rs[i].res.kind # "chunk"})

\* the caller's use of a result: `if len(chunk.Choices) > 0 { msg.AppendDelta(&chunk.Choices[0].Delta) }`
MergeChunk(m, res) ==
  IF res.kind = "chunk" /\ res.chunk.choices # << >>
       /\ ~AppendDeltaPanics(res.chunk.choices[1].delta)
    THEN AppendDelta(m, res.chunk.choices[1].delta)
    ELSE m

\* one whole Stream.Recv with nobody else running.  from and to are the
\* scanner's positions before and after the call.
RecvCall ==
  /\ NonChunks(results) < MaxNonChunk
  /\ IF closed
       THEN /\ results' = Append(results, [res |-> ErrStreamClosed, from |-> pos, to |-> pos])
            /\ UNCHANGED << pos, scanErr, dec, acc >>
       ELSE LET r == recvLoop(dialect, lines, pos, scanErr, dec)
            IN  /\ pos' = r.pos /\ scanErr' = r.err /\ dec' = r.st
                /\ results' = Append(results, [res |-> r.res, from |-> pos, to |-> r.pos])
                /\ acc' = MergeChunk(acc, r.res)
  /\ UNCHANGED << dialect, lines, buffered, closed, mu, readerClosed, rpc, cpc,
                  call, flagAt, turn, base, pads >>
  /\ UNCHANGED translation

\* one whole Stream.Close with nobody else running
CloseCall ==
  /\ readerClosed < NumClosers
  /\ closed' = TRUE
  /\ readerClosed' = readerClosed + 1
  /\ UNCHANGED << dialect, lines, pos, buffered, scanErr, dec, mu, rpc, cpc, results,
                  call, flagAt, acc, turn, base, pads >>
  /\ UNCHANGED translation

NextRecv == RecvCall \/ CloseCall

SpecRecv == InitRecv /\ [][NextRecv]_vars

-----------------------------------------------------------------------------
(* Claims about successive Recv calls.                                      *)

Calls == 1..Len(results)

IsError(r) == r.res.kind \in {"decodeErr", "apiErr"}

\* the line whose decoding made call i return (a call that returns because
\* Scan returned false, or with ErrStreamClosed, has none)
Decoded(i) == results[i].res.kind \in {"chunk", "decodeErr", "apiErr"} \/ results[i].res.term

\* line q carries something a decoder can turn into a result
Meaningful(q) == lines[q].k \in {"data", "toolong"}

\* C5 as stated: once a Recv has returned a decode error or an APIError, no
\* later Recv returns a chunk.
C5_ErrorIsTerminal ==
  \A i \in Calls : \A j \in Calls :
     (i < j /\ IsError(results[i])) => results[j].res.kind # "chunk"

\* C5 amended: the payload that failed is consumed and never retried or
\* delivered: every later Recv resumes after it, and returns a chunk only
\* from a later data line whose payload decodes and (dialect A) carries no
\* error object.
C5_ErrorConsumesPayload ==
  \A i \in Calls : IsError(results[i]) =>
     /\ results[i].to > results[i].from
     /\ lines[results[i].to].k = "data"
     /\ \A j \in Calls : j > i =>
          /\ results[j].from >= results[i].to
          /\ results[j].res.kind = "chunk" =>
               /\ results[j].to > results[i].to
               /\ lines[results[j].to].k = "data"
               /\ lines[results[j].to].p.raw = "obj"
               /\ (dialect = "A" => ~lines[results[j].to].p.hasError)

\* an error of each kind in dialect B, and a chunk delivered after an error
C5_Witness ==
  /\ dialect = "B" /\ Len(results) >= 2
  /\ IsError(results[1])
  /\ results[2].res.kind = "chunk"

RECURSIVE DataLines(_)
DataLines(ls) ==
  IF ls = << >> THEN << >>
  ELSE (IF Head(ls).k = "data" THEN << Head(ls) >> ELSE << >>) \o DataLines(Tail(ls))

IsChunkLine(l) == l.k = "data" /\ l.p.raw = "obj" /\ ~l.p.hasError

\* n well-formed chunk data lines, then data: [DONE] (around them only
\* lines that are no data lines, none over-long)
ChunksThenDone(ls) ==
  LET ds == DataLines(ls)
  IN  /\ ds # << >>
      /\ ds[Len(ds)] = DoneLine
      /\ \A q \in 1..(Len(ds) - 1) : IsChunkLine(ds[q])
      /\ \A q \in 1..Len(ls) : ls[q].k # "toolong"

StreamChunkOf(l) == [id |-> l.p.id, model |-> l.p.model, choices |-> l.p.choices]

\* C7: over n well-formed dialect A chunk lines followed by data: [DONE],
\* the first n Recv calls return those chunks in wire order, one per call,
\* and call n + 1 returns io.EOF (calls made before any Close).
C7_ChunksInOrder ==
  (dialect = "A" /\ ChunksThenDone(lines)) =>
     LET ds == DataLines(lines)
         n  == Len(ds) - 1
     IN  \A i \in Calls : results[i].res # ErrStreamClosed =>
            /\ i <= n => results[i].res = ChunkResult(StreamChunkOf(ds[i]))
            /\ i = n + 1 => results[i].res.kind = "eof"

\* two different chunks and the sentinel, all received
C7_Witness ==
  /\ dialect = "A" /\ ChunksThenDone(lines)
  /\ DataLines(lines) = << ChunkLineA("b"), ChunkLineA("a"), DoneLine >>
  /\ Len(results) = 3 /\ results[3].res.kind = "eof"

IsErrorLine(l) == l.k = "data" /\ l.p.raw = "obj" /\ l.p.hasError

\* C9: in dialect A a payload with an error object makes Recv return a nil
\* chunk and an APIError with the object's code, message and type, also when
\* the payload carries choices; no chunk is ever delivered for it.
C9_ErrorSupersedesChunk ==
  dialect = "A" =>
     /\ \A q \in 1..pos : IsErrorLine(lines[q]) =>
          \E i \in Calls :
             /\ results[i].to = q
             /\ results[i].res = APIError(lines[q].p.errCode, lines[q].p.errMessage,
                                          lines[q].p.errType)
             /\ results[i].res.chunk = ZeroChunk
     /\ \A i \in Calls : results[i].res.kind = "chunk" =>
          ~IsErrorLine(lines[results[i].to])

\* an error object beside choices was received
C9_Witness ==
  /\ dialect = "A"
  /\ \E i \in Calls :
       /\ results[i].res.kind = "apiErr" /\ results[i].res.code = "rate_limit_exceeded"
       /\ lines[results[i].to].p.choices # << >>

-----------------------------------------------------------------------------
(* Dialect B event streams merged by the caller.                            *)

MaxEvents == 3

MergeFrames ==
  { MessageStartFrame,
    BlockStartFrame(0, "text", "", ""),
    BlockStartFrame(0, "tool_use", "toolu_0", "lookup"),
    BlockStartFrame(1, "tool_use", "toolu_1", "get_weather"),
    JsonDeltaFrame(0, "{}"),
    JsonDeltaFrame(1, "{\"city\":"),
    JsonDeltaFrame(1, "\"NYC\"}"),
    TextDeltaFrame(0, "Hi"),
    MessageDeltaFrame("tool_use") }

InitMerge ==
  /\ dialect = "B"
  /\ lines \in Bodies(MergeFrames, MaxEvents)
  /\ turn = NoTurn
  /\ InitCaller

SpecMerge == InitMerge /\ [][NextRecv]_vars

\* the data line at q belongs to an event line named e
IsEventData(ls, q, e) == q > 1 /\ ls[q].k = "data" /\ ls[q - 1] = EventLine(e)

\* the places in the first n lines of a tool_use content_block_start at block index i
ToolStarts(ls, n, i) ==
  { q \in 1..n : /\ IsEventData(ls, q, "content_block_start")
                 /\ ls[q].p.cbType = "tool_use" /\ ls[q].p.index = i }

\* the places in the first n lines of an input_json_delta at block index i
JsonDeltas(ls, n, i) ==
  { q \in 1..n : /\ IsEventData(ls, q, "content_block_delta")
                 /\ ls[q].p.dType = "input_json_delta" /\ ls[q].p.index = i }

\* f1 \o ... \o fn: the fragments of the input_json_delta events at index i
\* among lines q..n, in wire order
RECURSIVE Fragments(_, _, _, _)
Fragments(ls, n, i, q) ==
  IF q > n THEN ""
  ELSE (IF q \in JsonDeltas(ls, n, i) THEN ls[q].p.dPartialJSON ELSE "")
         \o Fragments(ls, n, i, q + 1)

\* C8: when the events received so far hold one content_block_start of type
\* tool_use at block index i (id I, name N) followed by the input_json_delta
\* events at i with fragments f1..fn, the merged ToolCalls[i] has id I,
\* name N and arguments f1 \o ... \o fn.
C8_ToolCallAssembled ==
  \A i \in 0..1 :
     LET starts == ToolStarts(lines, pos, i)
     IN  (/\ Cardinality(starts) = 1
          /\ \A q \in JsonDeltas(lines, pos, i) : \A s \in starts : s < q)
         => LET b == lines[CHOOSE s \in starts : TRUE].p
            IN  /\ Len(acc.toolCalls) > i
                /\ acc.toolCalls[i + 1].id = b.cbID
                /\ acc.toolCalls[i + 1].name = b.cbName
                /\ acc.toolCalls[i + 1].arguments = Fragments(lines, pos, i, 1)

\* the scenario of the spec, at block index 1
C8_Witness ==
  /\ lines = Flatten(<< BlockStartFrame(1, "tool_use", "toolu_1", "get_weather"),
                        JsonDeltaFrame(1, "{\"city\":"), JsonDeltaFrame(1, "\"NYC\"}") >>)
  /\ pos = Len(lines)
  /\ Len(acc.toolCalls) = 2
  /\ acc.toolCalls[2].arguments = "{\"city\":\"NYC\"}"
  /\ acc.toolCalls[2].name = "get_weather"

-----------------------------------------------------------------------------
(* One dialect B turn, streamed and not streamed.  A block is given by the  *)
(* fragments its text (or its tool input) is streamed in; the non-streamed  *)
(* response carries their concatenation.                                    *)

MaxBlocks == 2

TextBlock(frags) == [type |-> "text", frags |-> frags, id |-> "", name |-> ""]
ToolUseBlock(id, name, frags) == [type |-> "tool_use", frags |-> frags, id |-> id, name |-> name]

TurnBlocks ==
  { TextBlock(<< "Hi" >>), TextBlock(<< "a", "b" >>),
    ToolUseBlock("toolu_1", "get_weather", << "{\"city\":", "\"NYC\"}" >>),
    ToolUseBlock("toolu_2", "lookup", << "{}" >>) }

Turns == UNION { [1..k -> TurnBlocks] : k \in 1..MaxBlocks }

RECURSIVE Concat(_)
Concat(ss) == IF ss = << >> THEN "" ELSE Head(ss) \o Concat(Tail(ss))

\* strings.Join(ss, sep)
RECURSIVE Join(_, _)
Join(ss, sep) ==
  IF ss = << >> THEN ""
  ELSE IF Len(ss) = 1 THEN ss[1]
  ELSE ss[1] \o sep \o Join(Tail(ss), sep)

StopReasonOf(t) ==
  IF \E k \in 1..Len(t) : t[k].type = "tool_use" THEN "tool_use" ELSE "end_turn"

\* the non-streamed form: the anthropicResponse of the turn
ResponseOfTurn(t) ==
  [id |-> "msg_1", model |-> "claude",
   content |-> [k \in 1..Len(t) |->
                  [type |-> t[k].type,
                   text |-> IF t[k].type = "text" THEN Concat(t[k].frags) ELSE "",
                   id |-> t[k].id, name |-> t[k].name,
                   input |-> IF t[k].type = "tool_use" THEN Concat(t[k].frags) ELSE ""]],
   stopReason |-> StopReasonOf(t),
   usage |-> [inputTokens |-> 10, outputTokens |-> 5]]

\* the frames of block k (block index k - 1): start, one delta per fragment, stop
RECURSIVE DeltaFrames(_, _, _)
DeltaFrames(i, type, frags) ==
  IF frags = << >> THEN << >>
  ELSE << IF type = "text" THEN TextDeltaFrame(i, Head(frags))
                           ELSE JsonDeltaFrame(i, Head(frags)) >>
         \o DeltaFrames(i, type, Tail(frags))

RECURSIVE BlockFrames(_, _)
BlockFrames(t, k) ==
  IF k > Len(t) THEN << >>
  ELSE << BlockStartFrame(k - 1, t[k].type, t[k].id, t[k].name) >>
         \o DeltaFrames(k - 1, t[k].type, t[k].frags)
         \o << BlockStopFrame(k - 1) >>
         \o BlockFrames(t, k + 1)

\* the streamed form: message_start, the blocks, message_delta, message_stop
StreamOfTurn(t) ==
  Flatten(<< MessageStartFrame >> \o BlockFrames(t, 1)
             \o << MessageDeltaFrame(StopReasonOf(t)), MessageStopFrame >>)

\* the loop of fromAnthropicResponse over ar.Content
RECURSIVE TextParts(_)
TextParts(blocks) ==
  IF blocks = << >> THEN << >>
  ELSE (IF Head(blocks).type = "text" THEN << Head(blocks).text >> ELSE << >>)
         \o TextParts(Tail(blocks))

\* ToolCallsOf that gives every tool call the index 0
RECURSIVE ToolCallsOf_ZeroIndex(_, _)
ToolCallsOf_ZeroIndex(blocks, tcs) ==
  IF blocks = << >> THEN tcs
  ELSE ToolCallsOf_ZeroIndex(Tail(blocks),
         IF Head(blocks).type = "tool_use"
           THEN Append(tcs, [index |-> 0, id |-> Head(blocks).id,
                             type |-> "function", name |-> Head(blocks).name,
                             arguments |-> Head(blocks).input])
           ELSE tcs)

RECURSIVE ToolCallsOf(_, _)
ToolCallsOf(blocks, tcs) ==
  IF blocks = << >> THEN tcs
  ELSE ToolCallsOf(Tail(blocks),
         IF Head(blocks).type = "tool_use"
           THEN Append(tcs, [index |-> Len(tcs), id |-> Head(blocks).id,
                             type |-> "function", name |-> Head(blocks).name,
                             arguments |-> Head(blocks).input])
           ELSE tcs)

fromAnthropicResponse(ar) ==
  LET textParts == TextParts(ar.content)
      msg == [ZeroMessage EXCEPT
                !.role = RoleAssistant,
                !.toolCalls = ToolCallsOf(ar.content, << >>),
                !.content = IF Len(textParts) > 0
                              THEN NewTextContent(Join(textParts, "\n"))
                              ELSE ZeroContent]
  IN  [id |-> ar.id, object |-> "chat.completion", model |-> ar.model,
       choices |-> << [index |-> 0, message |-> msg,
                       finishReason |-> mapAnthropicStopReason(ar.stopReason)] >>,
       usage |-> [promptTokens |-> ar.usage.inputTokens,
                  completionTokens |-> ar.usage.outputTokens,
                  totalTokens |-> ar.usage.inputTokens + ar.usage.outputTokens]]

InitTurn ==
  /\ dialect = "B"
  /\ turn \in Turns
  /\ lines = StreamOfTurn(turn)
  /\ InitCaller

SpecTurn == InitTurn /\ [][NextRecv]_vars

\* the stream of the turn was received to its message_stop, before any Close
TurnReceived ==
  /\ results # << >>
  /\ results[Len(results)].res = EOFResult(TRUE)
  /\ \A i \in Calls : results[i].res # ErrStreamClosed

\* C1: the deltas of the streamed turn, merged in order into an empty
\* Message, give the text and the tool-call list (length, and each entry's
\* index, id, name and arguments) of fromAnthropicResponse on the same turn.
C1_StreamEqualsNonStream ==
  TurnReceived =>
     LET msg == fromAnthropicResponse(ResponseOfTurn(turn)).choices[1].message
     IN  /\ ContentText(acc.content) = ContentText(msg.content)
         /\ Len(acc.toolCalls) = Len(msg.toolCalls)
         /\ \A k \in 1..Len(msg.toolCalls) :
              /\ acc.toolCalls[k].index = msg.toolCalls[k].index
              /\ acc.toolCalls[k].id = msg.toolCalls[k].id
              /\ acc.toolCalls[k].name = msg.toolCalls[k].name
              /\ acc.toolCalls[k].arguments = msg.toolCalls[k].arguments

-----------------------------------------------------------------------------
(* Heartbeats: blank lines and ':' comment lines inserted into a body.      *)

MaxPadFrames == 2
MaxPads == 2

PadFrames(d) ==
  IF d = "A"
    THEN { << ChunkLineA("a") >>, << DoneLine >>, << DataLine(BadPayload) >>,
           << ErrorLineA >>, << OtherLine >>, << TooLongLine >> }
    ELSE { MessageStartFrame, TextDeltaFrame(0, "a"), MessageStopFrame,
           << EventLine("ping") >>, << DataLine(ZeroJSON) >>, << TooLongLine >> }

InitPad ==
  /\ dialect \in {"A", "B"}
  /\ base \in Bodies(PadFrames(dialect), MaxPadFrames)
  /\ lines = base
  /\ turn = NoTurn /\ pads = 0
  /\ pos = 0 /\ buffered = Len(lines) /\ scanErr = "" /\ dec = ZeroDec
  /\ closed = FALSE /\ mu = NoThread /\ readerClosed = 0
  /\ rpc = "idle" /\ cpc = [c \in Closers |-> "idle"]
  /\ results = << >> /\ call = NoCall /\ flagAt = NoFlag
  /\ acc = ZeroMessage
  /\ InitTranslation

\* a blank line or a comment line is inserted after line q (q = 0: in front)
InsertPad ==
  /\ pads < MaxPads
  /\ \E q \in 0..Len(lines) : \E l \in {BlankLine, CommentLine} :
       lines' = SubSeq(lines, 1, q) \o << l >> \o SubSeq(lines, q + 1, Len(lines))
  /\ pads' = pads + 1
  /\ UNCHANGED << dialect, pos, buffered, scanErr, dec, closed, mu, readerClosed, rpc,
                  cpc, results, call, flagAt, acc, turn, base >>
  /\ UNCHANGED translation

NextPad == InsertPad

SpecPad == InitPad /\ [][NextPad]_vars

\* what successive Recv calls on a fresh stream over body ls return, up to
\* the call at which Scan first returns false (every later call returns the
\* same as that one)
RECURSIVE RecvAllFrom(_, _, _, _)
RecvAllFrom(d, ls, p, st) ==
  LET r == recvLoop(d, ls, p, "", st)
  IN  IF r.err # "" THEN << r.res >>
      ELSE << r.res >> \o RecvAllFrom(d, ls, r.pos, r.st)

RecvAll(d, ls) == RecvAllFrom(d, ls, 0, ZeroDec)

\* C10: blank and comment lines inserted at any line boundaries (also between
\* a dialect B event line and its data line) leave the sequence of results of
\* successive Recv calls unchanged.
C10_HeartbeatsIgnored == RecvAll(dialect, lines) = RecvAll(dialect, base)

\* a heartbeat between an event line and its data line, and the chunk is delivered
C10_Witness ==
  /\ dialect = "B" /\ pads = 2
  /\ \E q \in 1..(Len(lines) - 3) :
       /\ lines[q] = EventLine("content_block_delta")
       /\ lines[q + 1] = CommentLine /\ lines[q + 2] = BlankLine
       /\ lines[q + 3].k = "data"
  /\ \E i \in 1..Len(RecvAll(dialect, lines)) : RecvAll(dialect, lines)[i].kind = "chunk"

-----------------------------------------------------------------------------
(* The delta merge engine on its own (schema.go): a caller applies          *)
(* AppendDelta, and the Content operations, to one Message.  steps logs     *)
(* every operation with the Message before and after it.                    *)

MaxSteps == 3

\* no stream is involved: the Stream variables stay at their zero values
NoStream ==
  /\ dialect = "A" /\ lines = << >>
  /\ pos = 0 /\ buffered = 0 /\ scanErr = "" /\ dec = ZeroDec
  /\ closed = FALSE /\ mu = NoThread /\ readerClosed = 0
  /\ rpc = "idle" /\ cpc = [c \in Closers |-> "idle"]
  /\ results = << >> /\ call = NoCall /\ flagAt = NoFlag
  /\ turn = NoTurn /\ base = << >> /\ pads = 0

streamVars == << dialect, lines, pos, buffered, scanErr, dec, closed, mu, readerClosed,
                 rpc, cpc, results, call, flagAt, turn, base, pads >>

TextPart(t) == [type |-> "text", text |-> t]
ImagePart == [type |-> "image_url", text |-> ""]

DeltaCall(idx, id, type, name, arguments) ==
  [index |-> idx, id |-> id, type |-> type, name |-> name, arguments |-> arguments]

TextDelta(t) == [ZeroMessage EXCEPT !.content = NewTextContent(t)]
CallsDelta(dtcs) == [ZeroMessage EXCEPT !.toolCalls = dtcs]

\* the deltas of the tests of schema_test.go, a delta whose content is a part
\* list, one that carries a role, one with two entries and one with a
\* negative index
Deltas ==
  { TextDelta("x"),
    [ZeroMessage EXCEPT !.content = NewPartsContent(<< TextPart("p") >>)],
    [ZeroMessage EXCEPT !.role = RoleAssistant],
    CallsDelta(<< DeltaCall(0, "call_1", "function", "fn1", "{a") >>),
    CallsDelta(<< DeltaCall(0, "", "", "", "b}") >>),
    CallsDelta(<< DeltaCall(2, "call_3", "function", "fn3", "c") >>),
    CallsDelta(<< DeltaCall(0, "call_9", "", "fn9", "") >>),
    [TextDelta("y") EXCEPT !.toolCalls = << DeltaCall(1, "call_2", "function", "fn2", "{"),
                                            DeltaCall(1, "", "", "", "}") >>],
    CallsDelta(<< DeltaCall(-1, "call_0", "function", "fn0", "") >>) }

NewContents ==
  { NewTextContent(""), NewTextContent("t"), NewPartsContent(<< >>),
    NewPartsContent(<< TextPart("a"), ImagePart >>) }

ContentData ==
  { [kind |-> "string", text |-> "s", parts |-> << >>],
    [kind |-> "string", text |-> "", parts |-> << >>],
    [kind |-> "array", text |-> "", parts |-> << TextPart("q") >>],
    [kind |-> "array", text |-> "", parts |-> << >>],
    [kind |-> "null", text |-> "", parts |-> << >>] }

NoData == [kind |-> "", text |-> "", parts |-> << >>]

InitDelta ==
  /\ acc \in { ZeroMessage,
               [ZeroMessage EXCEPT !.role = RoleAssistant, !.content = NewTextContent("Hello")],
               [ZeroMessage EXCEPT !.role = "user",
                                   !.content = NewPartsContent(<< TextPart("a"), ImagePart >>)] }
  /\ steps = << >>
  /\ req = NoValue /\ sent = NoValue /\ resp = NoValue /\ got = NoValue
  /\ NoStream

\* a panic of AppendDelta ends the program
Panicked == \E i \in 1..Len(steps) : steps[i].panicked

\* m.AppendDelta(&delta)
AppendDeltaCall ==
  /\ Len(steps) < MaxSteps /\ ~Panicked
  /\ \E delta \in Deltas :
       /\ acc' = AppendDelta(acc, delta)
       /\ steps' = Append(steps, [op |-> "AppendDelta", delta |-> delta, data |-> NoData,
                                  before |-> acc, after |-> acc',
                                  panicked |-> AppendDeltaPanics(delta)])
  /\ UNCHANGED << req, sent, resp, got >>
  /\ UNCHANGED streamVars

\* m.Content = NewTextContent(..) or m.Content = NewPartsContent(..)
NewContentCall ==
  /\ Len(steps) < MaxSteps /\ ~Panicked
  /\ \E c \in NewContents :
       /\ acc' = [acc EXCEPT !.content = c]
       /\ steps' = Append(steps, [op |-> "NewContent", delta |-> ZeroMessage, data |-> NoData,
                                  before |-> acc, after |-> acc', panicked |-> FALSE])
  /\ UNCHANGED << req, sent, resp, got >>
  /\ UNCHANGED streamVars

\* json.Unmarshal(data, &m.Content)
UnmarshalJSONCall ==
  /\ Len(steps) < MaxSteps /\ ~Panicked
  /\ \E data \in ContentData :
       /\ acc' = [acc EXCEPT !.content = UnmarshalJSON(@, data)]
       /\ steps' = Append(steps, [op |-> "UnmarshalJSON", delta |-> ZeroMessage, data |-> data,
                                  before |-> acc, after |-> acc', panicked |-> FALSE])
  /\ UNCHANGED << req, sent, resp, got >>
  /\ UNCHANGED streamVars

\* json.Marshal(m): role and content always, tool_call_id and tool_calls
\* when not empty; a tool call writes index and function always, id, type,
\* name and arguments when not empty.  keys are the `omitempty` keys written.
MessageJSON(m) ==
  LET Written(ks, obj) == { k \in ks : obj[k] # "" }
  IN  [role |-> m.role, content |-> MarshalJSON(m.content),
       keys |-> Written({"toolCallID"}, m)
                  \cup (IF Len(m.toolCalls) > 0 THEN {"toolCalls"} ELSE {}),
       toolCallID |-> m.toolCallID,
       toolCalls |-> [j \in 1..Len(m.toolCalls) |->
                        [index |-> m.toolCalls[j].index,
                         keys |-> Written({"id", "type", "name", "arguments"},
                                          m.toolCalls[j]),
                         id |-> m.toolCalls[j].id, type |-> m.toolCalls[j].type,
                         name |-> m.toolCalls[j].name,
                         arguments |-> m.toolCalls[j].arguments]]]

\* data, _ := json.Marshal(m); var fresh Message; json.Unmarshal(data, &fresh);
\* m = fresh.  A key that is not in the JSON leaves the fresh value's zero.
RoundTripCall ==
  /\ Len(steps) < MaxSteps /\ ~Panicked
  /\ LET data == MessageJSON(acc)
         Field(obj, k) == IF k \in obj.keys THEN obj[k] ELSE ""
     IN  acc' = [role |-> data.role,
                 content |-> UnmarshalJSON(ZeroContent, data.content),
                 toolCallID |-> Field(data, "toolCallID"),
                 toolCalls |->
                   IF "toolCalls" \in data.keys
                     THEN [j \in 1..Len(data.toolCalls) |->
                             [index |-> data.toolCalls[j].index,
                              id |-> Field(data.toolCalls[j], "id"),
                              type |-> Field(data.toolCalls[j], "type"),
                              name |-> Field(data.toolCalls[j], "name"),
                              arguments |-> Field(data.toolCalls[j], "arguments")]]
                     ELSE << >>]
  /\ steps' = Append(steps, [op |-> "RoundTrip", delta |-> ZeroMessage, data |-> NoData,
                             before |-> acc, after |-> acc', panicked |-> FALSE])
  /\ UNCHANGED << req, sent, resp, got >>
  /\ UNCHANGED streamVars

NextDelta == AppendDeltaCall \/ NewContentCall \/ UnmarshalJSONCall \/ RoundTripCall

SpecDelta == InitDelta /\ [][NextDelta]_vars

-----------------------------------------------------------------------------
(* Claims about the delta merge engine.                                     *)

DeltaSteps == {i \in 1..Len(steps) : steps[i].op = "AppendDelta"}

\* the entries of a delta that the loop of AppendDelta gets to: those up to
\* and including the first one with a negative index
Reached(dtcs) == {j \in 1..Len(dtcs) : \A i \in 1..(j - 1) : dtcs[i].index >= 0}

\* the tool-call list of step i just before its delta's j-th entry is processed
ListBefore(i, j) ==
  MergeToolCalls(steps[i].before.toolCalls, SubSeq(steps[i].delta.toolCalls, 1, j - 1))

\* the tool-call list of step i just after its delta's j-th entry is
\* processed; after the last entry it is the list AppendDelta left
ListAfter(i, j) ==
  IF j = Len(steps[i].delta.toolCalls) THEN steps[i].after.toolCalls
  ELSE MergeToolCalls(steps[i].before.toolCalls, SubSeq(steps[i].delta.toolCalls, 1, j))

\* the entry that Merge is applied to for an entry of a delta aimed at index k
Target(tb, k) == IF k < Len(tb) THEN tb[k + 1] ELSE [ZeroToolCall EXCEPT !.index = k]

\* C11: a delta tool call whose index k is at or beyond the length L of the
\* list grows the list to exactly k + 1 entries: positions L..k-1 hold empty
\* placeholders whose Index is their position, position k holds the delta's
\* fields, and the L entries that existed are unchanged.
C11_SparseGrowth ==
  \A i \in DeltaSteps : \A j \in Reached(steps[i].delta.toolCalls) :
    LET d  == steps[i].delta.toolCalls[j]
        k  == d.index
        tb == ListBefore(i, j)
        ta == ListAfter(i, j)
        L  == Len(tb)
    IN  k >= L =>
          /\ Len(ta) = k + 1
          /\ \A q \in L..(k - 1) :
               ta[q + 1] = [index |-> q, id |-> "", type |-> "", name |-> "", arguments |-> ""]
          /\ ta[k + 1] = [index |-> k, id |-> d.id, type |-> d.type, name |-> d.name,
                          arguments |-> d.arguments]
          /\ SubSeq(ta, 1, L) = tb

\* a delta at index 2 merged into a Message without tool calls: three
\* entries, placeholders at 0 and 1
C11_Witness ==
  \E i \in DeltaSteps :
    /\ steps[i].before.toolCalls = << >>
    /\ Len(steps[i].delta.toolCalls) = 1 /\ steps[i].delta.toolCalls[1].index = 2
    /\ Len(steps[i].after.toolCalls) = 3
    /\ steps[i].after.toolCalls[1].name = "" /\ steps[i].after.toolCalls[3].name = "fn3"
    /\ i = Len(steps) /\ acc = steps[i].after

\* the arguments that the entries of dtcs aimed at index k carry, in order
RECURSIVE ArgsOf(_, _)
ArgsOf(dtcs, k) ==
  IF dtcs = << >> \/ Head(dtcs).index < 0 THEN ""
  ELSE (IF Head(dtcs).index = k THEN Head(dtcs).arguments ELSE "") \o ArgsOf(Tail(dtcs), k)

\* the arguments that the deltas of steps a..b carry for index k, in order
RECURSIVE ArgsFrom(_, _, _)
ArgsFrom(k, a, b) ==
  IF a > b THEN "" ELSE ArgsOf(steps[a].delta.toolCalls, k) \o ArgsFrom(k, a + 1, b)

\* C12: every Merge leaves the entry's arguments equal to its previous
\* arguments followed by the delta's, and touches no other entry's; so
\* across the steps the list never shrinks and each earlier value of an
\* entry's arguments is a prefix of every later value (the later value is
\* the earlier one followed by what the deltas in between carried for it).
C12_ArgumentsOnlyGrow ==
  /\ \A i \in DeltaSteps : \A j \in Reached(steps[i].delta.toolCalls) :
       LET d  == steps[i].delta.toolCalls[j]
           tb == ListBefore(i, j)
           ta == ListAfter(i, j)
       IN  d.index >= 0 =>
             /\ ta[d.index + 1].arguments = Target(tb, d.index).arguments \o d.arguments
             /\ \A q \in 1..Len(tb) : q # d.index + 1 => ta[q].arguments = tb[q].arguments
  /\ \A i \in 1..Len(steps) : \A j \in i..Len(steps) :
       /\ Len(steps[i].after.toolCalls) <= Len(steps[j].after.toolCalls)
       /\ \A q \in 1..Len(steps[i].after.toolCalls) :
            steps[j].after.toolCalls[q].arguments =
              steps[i].after.toolCalls[q].arguments \o ArgsFrom(q - 1, i + 1, j)

\* the arguments of TestToolCallMerge style: "{a" then "b}" on entry 0
C12_Witness ==
  /\ Len(steps) >= 2 /\ steps[Len(steps)].op = "AppendDelta"
  /\ steps[Len(steps)].before.toolCalls # << >>
  /\ steps[Len(steps)].before.toolCalls[1].arguments = "{a"
  /\ acc.toolCalls[1].arguments = "{ab}"

\* C13: Merge changes id, type and name only when the delta's field is not
\* empty, and then to the delta's value; an empty field leaves the value as
\* it was, so an id or a name that is not empty never becomes empty again.
C13_FieldsKeptUnlessGiven ==
  /\ \A i \in DeltaSteps : \A j \in Reached(steps[i].delta.toolCalls) :
       LET d   == steps[i].delta.toolCalls[j]
           old == Target(ListBefore(i, j), d.index)
           new == ListAfter(i, j)[d.index + 1]
       IN  d.index >= 0 =>
             /\ new.id   = IF d.id # ""   THEN d.id   ELSE old.id
             /\ new.type = IF d.type # "" THEN d.type ELSE old.type
             /\ new.name = IF d.name # "" THEN d.name ELSE old.name
  /\ \A i \in 1..Len(steps) : \A j \in i..Len(steps) :
       \A q \in 1..Len(steps[i].after.toolCalls) :
          /\ steps[i].after.toolCalls[q].name # "" => steps[j].after.toolCalls[q].name # ""
          /\ steps[i].after.toolCalls[q].id # "" => steps[j].after.toolCalls[q].id # ""

\* entry 0, named fn1, gets a delta without id, type or name and keeps
\* them; a later delta with id call_9 and name fn9 overwrites id and name
\* and leaves the type
C13_Witness ==
  \E i \in DeltaSteps :
    /\ steps[i].before.toolCalls # << >>
    /\ steps[i].before.toolCalls[1].name = "fn1" /\ steps[i].before.toolCalls[1].id = "call_1"
    /\ steps[i].delta.toolCalls = << DeltaCall(0, "", "", "", "b}") >>
    /\ steps[i].after.toolCalls[1].name = "fn1" /\ steps[i].after.toolCalls[1].id = "call_1"
    /\ i < Len(steps) /\ acc.toolCalls[1].name = "fn9" /\ acc.toolCalls[1].type = "function"

\* C14 as stated: after m.AppendDelta(d), m.Content.Text() is its value
\* before the call followed by d.Content.Text(), whichever variant the
\* Content of m and of d is.
C14_TextAppended ==
  \A i \in DeltaSteps :
    ContentText(steps[i].after.content) =
      ContentText(steps[i].before.content) \o ContentText(steps[i].delta.content)

\* the combined delta: the text of d1 followed by that of d2 (the text field,
\* which is where a streamed delta carries its text), the tool-call list of
\* d1 followed by that of d2
Combine(d1, d2) ==
  [d1 EXCEPT !.content.text = @ \o d2.content.text, !.toolCalls = @ \o d2.toolCalls]

\* the deltas of steps a..b combined into one
RECURSIVE CombineSteps(_, _)
CombineSteps(a, b) ==
  IF a = b THEN steps[a].delta ELSE Combine(steps[a].delta, CombineSteps(a + 1, b))

\* C15: a run of consecutive AppendDelta calls leaves the same Message as
\* one AppendDelta of the combined delta, applied to the Message the run
\* started from (and panics exactly when the run does); every regrouping of
\* a delta sequence is made of such runs.
C15_RegroupingInvariant ==
  \A a \in DeltaSteps : \A b \in DeltaSteps :
    (a <= b /\ \A i \in a..b : i \in DeltaSteps) =>
       /\ AppendDelta(steps[a].before, CombineSteps(a, b)) = steps[b].after
       /\ AppendDeltaPanics(CombineSteps(a, b)) = (\E i \in a..b : steps[i].panicked)

\* three deltas in a row, with text and with tool calls at indices 0, 1 and
\* 2 arriving out of order
C15_Witness ==
  /\ Len(steps) = 3 /\ DeltaSteps = 1..3
  /\ steps[1].delta.toolCalls # << >> /\ steps[1].delta.toolCalls[1].index = 2
  /\ steps[2].delta.content.text = "y" /\ Len(steps[2].delta.toolCalls) = 2
  /\ steps[3].delta.toolCalls = << DeltaCall(0, "", "", "", "b}") >>
  /\ acc.content.text = "Helloy"
  /\ acc.toolCalls[1].arguments = "b}" /\ acc.toolCalls[2].arguments = "{}"

\* C16 as stated: a Content never has a non-empty text field together with a
\* non-nil parts field.
C16_OneVariantPopulated ==
  ~(acc.content.text # "" /\ ~acc.content.partsNil)

\* the marshal-then-unmarshal steps taken so far
RoundTrips == { i \in 1..Len(steps) : steps[i].op = "RoundTrip" }

\* c is a text variant or a parts variant
IsVariant(c) == c.partsNil \/ c.text = ""

\* C26: marshalling a Message whose Content is a text variant or a parts
\* variant and unmarshalling the JSON into a fresh Message gives a Message
\* equal to the original, with and without tool calls.
C26_RoundTrip ==
  \A i \in RoundTrips :
     IsVariant(steps[i].before.content) => steps[i].after = steps[i].before

\* the round trip of a Message whose Content is an empty part list that is
\* not nil and whose tool calls were grown with placeholders
C26_Witness ==
  \E i \in RoundTrips :
     /\ ~steps[i].before.content.partsNil
     /\ steps[i].before.content.parts = << >>
     /\ Len(steps[i].before.toolCalls) = 3
     /\ steps[i].before.toolCalls[3].id = "call_3"
     /\ steps[i].after = steps[i].before

-----------------------------------------------------------------------------
(* The stop reason of dialect B, non-streamed (AnthropicChatCompletion      *)
(* hands the decoded body to fromAnthropicResponse) and streamed (the       *)
(* message_delta event).                                                    *)

\* the vendor's stop reasons, the canonical ones, the empty string and
\* strings the table does not know
StopReasons ==
  { "end_turn", "stop_sequence", "max_tokens", "tool_use",
    "", "pause_turn", "refusal", "stop", "length", "unknown" }

InitStop ==
  /\ \E r \in StopReasons :
       /\ resp = [ResponseOfTurn(<< TextBlock(<< "Hi" >>) >>) EXCEPT !.stopReason = r]
       /\ lines = Flatten(<< MessageStartFrame, TextDeltaFrame(0, "Hi"),
                             MessageDeltaFrame(r), MessageStopFrame >>)
  /\ dialect = "B" /\ turn = NoTurn
  /\ pos = 0 /\ buffered = Len(lines) /\ scanErr = "" /\ dec = ZeroDec
  /\ closed = FALSE /\ mu = NoThread /\ readerClosed = 0
  /\ rpc = "idle" /\ cpc = [c \in Closers |-> "idle"]
  /\ results = << >> /\ call = NoCall /\ flagAt = NoFlag
  /\ acc = ZeroMessage /\ base = << >> /\ pads = 0
  /\ steps = << >> /\ req = NoValue /\ sent = NoValue /\ got = NoValue

\* cr := fromAnthropicResponse(&result)
TranslateResponse ==
  /\ got = NoValue
  /\ got' = fromAnthropicResponse(resp)
  /\ UNCHANGED << acc, steps, req, sent, resp >>
  /\ UNCHANGED streamVars

NextStop == TranslateResponse \/ RecvCall \/ CloseCall

SpecStop == InitStop /\ [][NextStop]_vars

\* the table of the claim
StopTable(r) ==
  IF r = "end_turn" THEN "stop"
  ELSE IF r = "stop_sequence" THEN "stop"
  ELSE IF r = "max_tokens" THEN "length"
  ELSE IF r = "tool_use" THEN "tool_calls"
  ELSE r

\* C17: the finish reason of the non-streamed response, and the finish
\* reason of the chunk of a message_delta event, are the table end_turn ->
\* stop, stop_sequence -> stop, max_tokens -> length, tool_use -> tool_calls
\* applied to the vendor's stop reason, every other string (the empty one
\* too) passing through unchanged.
C17_StopReasonTable ==
  /\ got # NoValue =>
       /\ Len(got.choices) = 1
       /\ got.choices[1].finishReason = StopTable(resp.stopReason)
  /\ \A i \in Calls :
       (results[i].res.kind = "chunk" /\ IsEventData(lines, results[i].to, "message_delta")) =>
          /\ Len(results[i].res.chunk.choices) = 1
          /\ ~results[i].res.chunk.choices[1].finishNil
          /\ results[i].res.chunk.choices[1].finish = StopTable(lines[results[i].to].p.stopReason)

\* max_tokens arrived both ways and came out as length both ways
C17_Witness ==
  /\ resp.stopReason = "max_tokens"
  /\ got # NoValue /\ got.choices[1].finishReason = "length"
  /\ \E i \in Calls :
       /\ IsEventData(lines, results[i].to, "message_delta")
       /\ results[i].res.kind = "chunk"
       /\ results[i].res.chunk.choices[1].finish = "length"

-----------------------------------------------------------------------------
(* Request translation of dialect B (anthropic.go) and the four call        *)
(* variants (chat.go, anthropic_chat.go).                                   *)

MaxMessages == 3

anthropicDefaultMaxTokens == 4096

RoleSystem == "system"
RoleUser == "user"
RoleTool == "tool"

\* ChatRequest.ToolChoice is an `any`: nil, a string, a map[string]any (with
\* what v["function"] and fn["name"] assert to), or a value of another type
ZeroToolChoice ==
  [kind |-> "nil", str |-> "", fnIsMap |-> FALSE, nameIsString |-> FALSE, name |-> ""]

StringChoice(v) == [ZeroToolChoice EXCEPT !.kind = "string", !.str = v]

\* the fields of ChatRequest the translators read
ZeroChatRequest ==
  [model |-> "", messages |-> << >>, maxTokensNil |-> TRUE, maxTokens |-> 0,
   stop |-> << >>, stream |-> FALSE, tools |-> << >>, toolChoice |-> ZeroToolChoice]

\* texts that json.Marshal accepts as a json.RawMessage
ValidJSON(raw) == raw \in { "{}", "{\"city\":\"NYC\"}" }

ZeroBlock ==
  [type |-> "", text |-> "", id |-> "", name |-> "", input |-> "",
   toolUseID |-> "", resultContent |-> ""]

\* ToolUseBlocks that lists the calls last to first
ToolUseBlocks_Reversed(tcs) ==
  [j \in 1..Len(tcs) |->
     [ZeroBlock EXCEPT !.type = "tool_use", !.id = tcs[Len(tcs) + 1 - j].id,
                       !.name = tcs[Len(tcs) + 1 - j].name,
                       !.input = tcs[Len(tcs) + 1 - j].arguments]]

\* the tool_use blocks of toAnthropicMessage, one per tool call
ToolUseBlocks(tcs) ==
  [j \in 1..Len(tcs) |->
     [ZeroBlock EXCEPT !.type = "tool_use", !.id = tcs[j].id, !.name = tcs[j].name,
                       !.input = tcs[j].arguments]]

\* toAnthropicMessage(m): (am, err).  Content is the marshalled JSON: a block
\* array or a string.  json.Marshal fails on a non-empty Input that is no
\* valid JSON (an empty Input is omitted).
toAnthropicMessage(m) ==
  IF m.role = RoleTool
    THEN [err |-> FALSE,
          am  |-> [role |-> "user",
                   content |-> [kind |-> "blocks", text |-> "",
                      blocks |-> << [ZeroBlock EXCEPT !.type = "tool_result",
                                        !.toolUseID = m.toolCallID,
                                        !.resultContent = ContentText(m.content)] >>]]]
  ELSE IF m.role = RoleAssistant /\ Len(m.toolCalls) > 0
    THEN LET text == ContentText(m.content)
             blocks == (IF text # "" THEN << [ZeroBlock EXCEPT !.type = "text", !.text = text] >>
                                     ELSE << >>) \o ToolUseBlocks(m.toolCalls)
         IN  [err |-> \E j \in 1..Len(blocks) :
                         blocks[j].input # "" /\ ~ValidJSON(blocks[j].input),
              am  |-> [role |-> m.role,
                       content |-> [kind |-> "blocks", text |-> "", blocks |-> blocks]]]
  ELSE [err |-> FALSE,
        am  |-> [role |-> m.role,
                 content |-> [kind |-> "string", text |-> ContentText(m.content),
                              blocks |-> << >>]]]

NoToolChoice == [nil |-> TRUE, type |-> "", name |-> ""]

\* convertToolChoice that treats "required" like "auto"
convertToolChoice_RequiredAsAuto(tc) ==
  IF tc.kind = "string" /\ tc.str \in {"auto", "required"}
    THEN [nil |-> FALSE, type |-> "auto", name |-> ""]
  ELSE IF tc.kind = "map" /\ tc.fnIsMap /\ tc.nameIsString
    THEN [nil |-> FALSE, type |-> "tool", name |-> tc.name]
  ELSE NoToolChoice

\* convertToolChoice(tc): *anthropicToolChoice
convertToolChoice(tc) ==
  IF tc.kind = "string" /\ tc.str = "auto"
    THEN [nil |-> FALSE, type |-> "auto", name |-> ""]
  ELSE IF tc.kind = "string" /\ tc.str = "required"
    THEN [nil |-> FALSE, type |-> "any", name |-> ""]
  ELSE IF tc.kind = "map" /\ tc.fnIsMap /\ tc.nameIsString
    THEN [nil |-> FALSE, type |-> "tool", name |-> tc.name]
  ELSE NoToolChoice

\* the loop of toAnthropicRequest over req.Messages; ar carries system,
\* messages and err (the loop returns at the first error)
RECURSIVE TranslateMessages(_, _)
TranslateMessages(ms, ar) ==
  IF ms = << >> \/ ar.err THEN ar
  ELSE LET m == Head(ms)
       IN  IF m.role = RoleSystem
             THEN TranslateMessages(Tail(ms),
                    [ar EXCEPT !.system = (IF @ # "" THEN @ \o "\n" ELSE @)
                                            \o ContentText(m.content)])
             ELSE LET r == toAnthropicMessage(m)
                  IN  IF r.err THEN [ar EXCEPT !.err = TRUE]
                      ELSE TranslateMessages(Tail(ms),
                             [ar EXCEPT !.messages = Append(@, r.am)])

\* toAnthropicRequest(req): (ar, err)
toAnthropicRequest(r) ==
  TranslateMessages(r.messages,
    [err |-> FALSE, model |-> r.model, stream |-> r.stream,
     maxTokens |-> IF ~r.maxTokensNil THEN r.maxTokens ELSE anthropicDefaultMaxTokens,
     stopSequences |-> r.stop,
     system |-> "", messages |-> << >>,
     tools |-> [j \in 1..Len(r.tools) |->
                  [name |-> r.tools[j].name, description |-> r.tools[j].description,
                   inputSchema |-> r.tools[j].parameters]],
     toolChoice |-> IF r.toolChoice.kind # "nil" THEN convertToolChoice(r.toolChoice)
                                                 ELSE NoToolChoice])

\* ForceStream that leaves the caller's Stream value
ForceStream_Keep(r, stream) == r

\* r := *req; r.Stream = stream
ForceStream(r, stream) == [r EXCEPT !.stream = stream]

TextMessage(role, text) ==
  [ZeroMessage EXCEPT !.role = role, !.content = NewTextContent(text)]

AssistantCall(text, arguments) ==
  [TextMessage(RoleAssistant, text) EXCEPT
     !.toolCalls = << DeltaCall(0, "call_1", "function", "get_weather", arguments) >>]

\* the messages of the tests of anthropic_test.go, a system message without
\* text, an assistant message whose arguments were cut short, and one with
\* two tool calls, the second without arguments
RequestMessages ==
  { TextMessage(RoleSystem, "You are helpful."), TextMessage(RoleSystem, "Be concise."),
    TextMessage(RoleSystem, ""), TextMessage(RoleUser, "Hi"),
    AssistantCall("Let me check.", "{\"city\":\"NYC\"}"),
    AssistantCall("", "{\"city\":"),
    [TextMessage(RoleAssistant, "") EXCEPT
       !.toolCalls = << DeltaCall(0, "call_1", "function", "get_weather", "{\"city\":\"NYC\"}"),
                        DeltaCall(1, "call_2", "function", "lookup", "") >>],
    [TextMessage(RoleTool, "{\"temp\": 72}") EXCEPT !.toolCallID = "call_1"] }

FunctionChoice(fnIsMap, nameIsString, name) ==
  [ZeroToolChoice EXCEPT !.kind = "map", !.fnIsMap = fnIsMap,
                         !.nameIsString = nameIsString, !.name = name]

\* nil; the strings of the tests and two others; {"type":"function",
\* "function":{"name":"get_weather"}}; a map without "function"; a map whose
\* function has no string "name"; a value that is neither string nor map
ToolChoices ==
  { ZeroToolChoice,
    StringChoice("auto"), StringChoice("required"), StringChoice("none"),
    StringChoice("any"), StringChoice(""),
    FunctionChoice(TRUE, TRUE, "get_weather"),
    FunctionChoice(FALSE, FALSE, ""), FunctionChoice(TRUE, FALSE, ""),
    [ZeroToolChoice EXCEPT !.kind = "other"] }

WeatherTool == [name |-> "get_weather", description |-> "Get weather", parameters |-> "{}"]

\* the body of an HTTP response.  raw tells whether the bytes are a JSON
\* object; text names the bytes; the other fields are the keys the decoders
\* read, at their zero values when the key is missing: id, object, model,
\* choices, usage and error (ChatResponse), content, stop_reason and usage
\* (anthropicResponse), type and error (anthropicErrorResponse).
ZeroBody ==
  [raw |-> "obj", text |-> "{}", id |-> "", object |-> "", model |-> "",
   choices |-> << >>,
   usage |-> [promptTokens |-> 0, completionTokens |-> 0, totalTokens |-> 0,
              inputTokens |-> 0, outputTokens |-> 0],
   errorNil |-> TRUE, error |-> [code |-> "", message |-> "", type |-> ""],
   type |-> "", content |-> << >>, stopReason |-> ""]

\* &APIError{}; err tells whether Err wraps an error
ZeroAPIError ==
  [kind |-> "APIError", statusCode |-> 0, code |-> "", message |-> "", type |-> "",
   err |-> FALSE]

\* Client.parseErrorResponse(resp), dialect A
parseErrorResponse(r) ==
  IF r.readErr
    THEN [ZeroAPIError EXCEPT !.statusCode = r.status,
                              !.message = "failed to read error response", !.err = TRUE]
  ELSE IF r.body.raw # "obj" \/ r.body.errorNil
    THEN [ZeroAPIError EXCEPT !.statusCode = r.status, !.message = r.body.text]
  ELSE [ZeroAPIError EXCEPT !.statusCode = r.status, !.code = r.body.error.code,
                            !.message = r.body.error.message, !.type = r.body.error.type]

\* parseAnthropicErrorResponse(resp), dialect B
parseAnthropicErrorResponse(r) ==
  IF r.readErr
    THEN [ZeroAPIError EXCEPT !.statusCode = r.status,
                              !.message = "failed to read error response", !.err = TRUE]
  ELSE IF r.body.raw # "obj" \/ r.body.error.message = ""
    THEN [ZeroAPIError EXCEPT !.statusCode = r.status, !.message = r.body.text]
  ELSE [ZeroAPIError EXCEPT !.statusCode = r.status, !.type = r.body.error.type,
                            !.message = r.body.error.message]

Requests ==
  { [ZeroChatRequest EXCEPT !.model = "m", !.messages = ms, !.stream = st,
                            !.tools = << WeatherTool >>, !.toolChoice = tc] :
      ms \in UNION { [1..k -> RequestMessages] : k \in 0..MaxMessages },
      st \in BOOLEAN, tc \in ToolChoices }

\* the server answers 200 with the body {}
InitRequest ==
  /\ req \in Requests
  /\ resp = [status |-> 200, sendErr |-> FALSE, readErr |-> FALSE, body |-> ZeroBody]
  /\ sent = NoValue /\ got = NoValue
  /\ acc = ZeroMessage /\ steps = << >>
  /\ NoStream

\* what doRequest posts for dialect A: json.Marshal of the copy r.  A Client
\* without base URL returns ErrNoBaseURL and posts nothing.
PostOpenAI(variant, r, hasBaseURL) ==
  IF hasBaseURL THEN [variant |-> variant, err |-> "", payload |-> r]
  ELSE [variant |-> variant, err |-> "ErrNoBaseURL", payload |-> NoValue]

\* what the dialect B variants post: json.Marshal of toAnthropicRequest(&r),
\* or nothing when the translation fails
PostAnthropic(variant, r) ==
  LET ar == toAnthropicRequest(r)
  IN  IF ar.err THEN [variant |-> variant, err |-> "marshal", payload |-> NoValue]
      ELSE [variant |-> variant, err |-> "", payload |-> ar]

\* ChatCompletion that tests for zero choices before the error object
ChatCompletion_EmptyFirst ==
  /\ sent = NoValue
  /\ \E hasBaseURL \in BOOLEAN :
       sent' = PostOpenAI("ChatCompletion", ForceStream(req, FALSE), hasBaseURL)
  /\ got' =
       IF sent'.err # "" THEN [resp |-> NoValue, err |-> [kind |-> sent'.err]]
       ELSE IF resp.sendErr THEN [resp |-> NoValue, err |-> [kind |-> "send request"]]
       ELSE IF resp.status # 200 THEN [resp |-> NoValue, err |-> parseErrorResponse(resp)]
       ELSE IF resp.readErr \/ resp.body.raw # "obj"
         THEN [resp |-> NoValue, err |-> [kind |-> "decode response"]]
       ELSE IF Len(resp.body.choices) = 0
         THEN [resp |-> NoValue, err |-> [kind |-> "ErrEmptyResponse"]]
       ELSE IF ~resp.body.errorNil
         THEN [resp |-> NoValue,
               err |-> [ZeroAPIError EXCEPT !.statusCode = resp.status,
                                            !.code = resp.body.error.code,
                                            !.message = resp.body.error.message,
                                            !.type = resp.body.error.type]]
       ELSE [resp |-> [id |-> resp.body.id, object |-> resp.body.object,
                       model |-> resp.body.model, choices |-> resp.body.choices,
                       usage |-> [promptTokens |-> resp.body.usage.promptTokens,
                                  completionTokens |-> resp.body.usage.completionTokens,
                                  totalTokens |-> resp.body.usage.totalTokens]],
             err |-> NoValue]
  /\ UNCHANGED << acc, steps, req, resp >>
  /\ UNCHANGED streamVars

\* Client.ChatCompletion: the request is posted with Stream false; a status
\* other than 200 gives parseErrorResponse, then the body is decoded into a
\* ChatResponse, then result.Error is tested, then len(result.Choices); the
\* decoded value is returned as it is.  got is the pair returned.
ChatCompletion ==
  /\ sent = NoValue
  /\ \E hasBaseURL \in BOOLEAN :
       sent' = PostOpenAI("ChatCompletion", ForceStream(req, FALSE), hasBaseURL)
  /\ got' =
       IF sent'.err # "" THEN [resp |-> NoValue, err |-> [kind |-> sent'.err]]
       ELSE IF resp.sendErr THEN [resp |-> NoValue, err |-> [kind |-> "send request"]]
       ELSE IF resp.status # 200 THEN [resp |-> NoValue, err |-> parseErrorResponse(resp)]
       ELSE IF resp.readErr \/ resp.body.raw # "obj"
         THEN [resp |-> NoValue, err |-> [kind |-> "decode response"]]
       ELSE IF ~resp.body.errorNil
         THEN [resp |-> NoValue,
               err |-> [ZeroAPIError EXCEPT !.statusCode = resp.status,
                                            !.code = resp.body.error.code,
                                            !.message = resp.body.error.message,
                                            !.type = resp.body.error.type]]
       ELSE IF Len(resp.body.choices) = 0
         THEN [resp |-> NoValue, err |-> [kind |-> "ErrEmptyResponse"]]
       ELSE [resp |-> [id |-> resp.body.id, object |-> resp.body.object,
                       model |-> resp.body.model, choices |-> resp.body.choices,
                       usage |-> [promptTokens |-> resp.body.usage.promptTokens,
                                  completionTokens |-> resp.body.usage.completionTokens,
                                  totalTokens |-> resp.body.usage.totalTokens]],
             err |-> NoValue]
  /\ UNCHANGED << acc, steps, req, resp >>
  /\ UNCHANGED streamVars

\* Client.ChatCompletionStream: the request is posted with Stream true; a
\* status other than 200 gives parseErrorResponse, any other a Stream on the body
ChatCompletionStream ==
  /\ sent = NoValue
  /\ \E hasBaseURL \in BOOLEAN :
       sent' = PostOpenAI("ChatCompletionStream", ForceStream(req, TRUE), hasBaseURL)
  /\ got' =
       IF sent'.err # "" THEN [resp |-> NoValue, err |-> [kind |-> sent'.err]]
       ELSE IF resp.sendErr THEN [resp |-> NoValue, err |-> [kind |-> "send request"]]
       ELSE IF resp.status # 200 THEN [resp |-> NoValue, err |-> parseErrorResponse(resp)]
       ELSE [resp |-> [kind |-> "Stream", dialect |-> "A"], err |-> NoValue]
  /\ UNCHANGED << acc, steps, req, resp >>
  /\ UNCHANGED streamVars

\* Client.AnthropicChatCompletion: the translated request is posted; a status
\* other than 200 gives parseAnthropicErrorResponse, then the body is decoded
\* into an anthropicResponse and handed to fromAnthropicResponse, then
\* len(cr.Choices) is tested
AnthropicChatCompletion ==
  /\ sent = NoValue
  /\ sent' = PostAnthropic("AnthropicChatCompletion", ForceStream(req, FALSE))
  /\ got' =
       IF sent'.err # "" THEN [resp |-> NoValue, err |-> [kind |-> sent'.err]]
       ELSE IF resp.sendErr THEN [resp |-> NoValue, err |-> [kind |-> "send request"]]
       ELSE IF resp.status # 200
         THEN [resp |-> NoValue, err |-> parseAnthropicErrorResponse(resp)]
       ELSE IF resp.readErr \/ resp.body.raw # "obj"
         THEN [resp |-> NoValue, err |-> [kind |-> "decode response"]]
       ELSE LET cr == fromAnthropicResponse(resp.body)
            IN  IF Len(cr.choices) = 0
                  THEN [resp |-> NoValue, err |-> [kind |-> "ErrEmptyResponse"]]
                  ELSE [resp |-> cr, err |-> NoValue]
  /\ UNCHANGED << acc, steps, req, resp >>
  /\ UNCHANGED streamVars

\* Client.AnthropicChatCompletionStream: the translated request is posted; a
\* status other than 200 gives parseAnthropicErrorResponse, any other a
\* Stream on the body
AnthropicChatCompletionStream ==
  /\ sent = NoValue
  /\ sent' = PostAnthropic("AnthropicChatCompletionStream", ForceStream(req, TRUE))
  /\ got' =
       IF sent'.err # "" THEN [resp |-> NoValue, err |-> [kind |-> sent'.err]]
       ELSE IF resp.sendErr THEN [resp |-> NoValue, err |-> [kind |-> "send request"]]
       ELSE IF resp.status # 200
         THEN [resp |-> NoValue, err |-> parseAnthropicErrorResponse(resp)]
       ELSE [resp |-> [kind |-> "Stream", dialect |-> "B"], err |-> NoValue]
  /\ UNCHANGED << acc, steps, req, resp >>
  /\ UNCHANGED streamVars

NextRequest ==
  \/ ChatCompletion \/ ChatCompletionStream
  \/ AnthropicChatCompletion \/ AnthropicChatCompletionStream

SpecRequest == InitRequest /\ [][NextRequest]_vars

-----------------------------------------------------------------------------
(* Claims about the request sent.                                           *)

\* a dialect B variant posted a translated request
SentAnthropic ==
  /\ sent # NoValue /\ sent.err = ""
  /\ sent.variant \in {"AnthropicChatCompletion", "AnthropicChatCompletionStream"}

\* the texts of the system messages of ms, in order
RECURSIVE SystemTexts(_)
SystemTexts(ms) ==
  IF ms = << >> THEN << >>
  ELSE (IF Head(ms).role = RoleSystem THEN << ContentText(Head(ms).content) >> ELSE << >>)
         \o SystemTexts(Tail(ms))

\* C18 as stated: System holds the texts of the system messages in order
\* with exactly one \n between consecutive entries (k - 1 separators for k
\* messages, empty texts included), and no system message is left in the
\* translated message list.
C18_SystemJoined ==
  SentAnthropic =>
    /\ sent.payload.system = Join(SystemTexts(req.messages), "\n")
    /\ \A j \in 1..Len(sent.payload.messages) : sent.payload.messages[j].role # RoleSystem
    /\ Len(sent.payload.messages) + Len(SystemTexts(req.messages)) = Len(req.messages)

\* the policy the claim's table gives for a tool_choice value
PolicyTable(tc) ==
  IF tc = StringChoice("auto") THEN [nil |-> FALSE, type |-> "auto", name |-> ""]
  ELSE IF tc = StringChoice("required") THEN [nil |-> FALSE, type |-> "any", name |-> ""]
  ELSE IF tc = StringChoice("none") THEN [nil |-> TRUE, type |-> "", name |-> ""]
  ELSE IF tc.kind = "map" /\ tc.fnIsMap /\ tc.nameIsString
    THEN [nil |-> FALSE, type |-> "tool", name |-> tc.name]
  ELSE [nil |-> TRUE, type |-> "", name |-> ""]

\* C19: the tool-choice policy of the translated request is auto for "auto",
\* any for "required", absent for "none", tool with the name for an object
\* naming a function, and absent for every other value; whether the
\* translation fails does not depend on tool_choice (it fails exactly when
\* it fails for the same request without tool_choice).
C19_ToolChoiceTotal ==
  (sent # NoValue /\ sent.variant \in {"AnthropicChatCompletion", "AnthropicChatCompletionStream"}) =>
     /\ (sent.err # "") = toAnthropicRequest([req EXCEPT !.toolChoice = ZeroToolChoice]).err
     /\ sent.err = "" => sent.payload.toolChoice = PolicyTable(req.toolChoice)

\* an object whose function has no string name is translated without error
\* into a request with messages and no policy
C19_Witness ==
  /\ SentAnthropic
  /\ req.toolChoice = FunctionChoice(TRUE, FALSE, "")
  /\ Len(sent.payload.messages) = 2
  /\ sent.payload.toolChoice.nil

\* C20: the stream field of the payload sent is true for the two streaming
\* variants and false for the two others, whatever req.Stream is.
C20_StreamForced ==
  (sent # NoValue /\ sent.err = "") =>
     sent.payload.stream =
       (sent.variant \in {"ChatCompletionStream", "AnthropicChatCompletionStream"})

\* the caller asked for a stream and called the non-streaming dialect B variant
C20_Witness ==
  /\ req.stream /\ SentAnthropic /\ sent.variant = "AnthropicChatCompletion"
  /\ ~sent.payload.stream

\* the messages of the request that are not system messages, in order
Conversation == SelectSeq(req.messages, LAMBDA m : m.role # RoleSystem)

CarriesCalls(m) == m.role = RoleAssistant /\ Len(m.toolCalls) >= 1

\* blocks is one leading text block iff m has text, then one tool_use block
\* per tool call of m in order, with the call's id, name and arguments
IsCallBlockList(blocks, m) ==
  LET text == ContentText(m.content)
      lead == IF text # "" THEN 1 ELSE 0
  IN  /\ Len(blocks) = lead + Len(m.toolCalls)
      /\ lead = 1 => blocks[1] = [ZeroBlock EXCEPT !.type = "text", !.text = text]
      /\ \A j \in 1..Len(m.toolCalls) :
            blocks[lead + j] = [ZeroBlock EXCEPT !.type = "tool_use",
                                                 !.id = m.toolCalls[j].id,
                                                 !.name = m.toolCalls[j].name,
                                                 !.input = m.toolCalls[j].arguments]

\* C25: a posted dialect B request holds, for every assistant message with
\* tool calls, at that message's place, the block list made of the optional
\* leading text block and the tool_use blocks in tool-call order; when
\* nothing is posted the translation failed, on a message whose arguments
\* are no JSON value.
C25_CallBlocks ==
  (/\ sent # NoValue
   /\ sent.variant \in {"AnthropicChatCompletion", "AnthropicChatCompletionStream"}) =>
    IF sent.err = ""
      THEN /\ Len(sent.payload.messages) = Len(Conversation)
           /\ \A i \in 1..Len(Conversation) :
                 CarriesCalls(Conversation[i]) =>
                   /\ sent.payload.messages[i].role = "assistant"
                   /\ sent.payload.messages[i].content.kind = "blocks"
                   /\ IsCallBlockList(sent.payload.messages[i].content.blocks,
                                      Conversation[i])
      ELSE /\ sent.err = "marshal"
           /\ \E i \in 1..Len(Conversation) :
                 /\ CarriesCalls(Conversation[i])
                 /\ \E j \in 1..Len(Conversation[i].toolCalls) :
                       ~ValidJSON(Conversation[i].toolCalls[j].arguments)

\* a request that was not posted: the arguments of a call were cut short
C25_Failed ==
  /\ sent # NoValue /\ sent.err = "marshal"
  /\ \E i \in 1..Len(Conversation) :
        CarriesCalls(Conversation[i]) /\ Conversation[i].toolCalls[1].arguments = "{\"city\":"

\* a posted request with the two-call message (no text: two tool_use blocks)
\* and the message with text and one call (a text block and a tool_use block)
C25_Witness ==
  /\ SentAnthropic /\ sent.err = ""
  /\ \E i \in 1..Len(Conversation) :
        /\ Len(Conversation[i].toolCalls) = 2
        /\ Len(sent.payload.messages[i].content.blocks) = 2
        /\ sent.payload.messages[i].content.blocks[2].id = "call_2"
  /\ \E i \in 1..Len(Conversation) :
        /\ Len(Conversation[i].toolCalls) = 1
        /\ Len(sent.payload.messages[i].content.blocks) = 2
        /\ sent.payload.messages[i].content.blocks[1].type = "text"

-----------------------------------------------------------------------------
(* The id and model a dialect B decoder captures from message_start: bodies *)
(* with several message_start events, one without the envelope's fields,    *)
(* one that does not decode, and other events that carry envelope fields.   *)

MaxStartFrames == 3

StartFrames ==
  { MessageStartFrame,
    << EventLine("message_start"),
       DataLine([ZeroJSON EXCEPT !.msgID = "msg_2", !.msgModel = "claude-b"]) >>,
    << EventLine("message_start"), DataLine(ZeroJSON) >>,
    << EventLine("message_start"), DataLine(BadPayload) >>,
    << EventLine("content_block_delta"),
       DataLine([ZeroJSON EXCEPT !.index = 0, !.dType = "text_delta", !.dText = "x",
                                 !.msgID = "msg_9", !.msgModel = "other"]) >>,
    BlockStartFrame(0, "tool_use", "toolu_0", "lookup"),
    JsonDeltaFrame(0, "{}"),
    MessageDeltaFrame("end_turn") }

InitStart ==
  /\ dialect = "B"
  /\ lines \in Bodies(StartFrames, MaxStartFrames)
  /\ turn = NoTurn
  /\ InitCaller

SpecStart == InitStart /\ [][NextRecv]_vars

\* the data lines among the first n lines of message_start events that decode
GoodStarts(ls, n) ==
  { q \in 1..n : IsEventData(ls, q, "message_start") /\ ls[q].p.raw = "obj" }

\* the id and model of the most recent message_start among the first n
\* lines, empty strings when there is none
LastStart(ls, n) ==
  IF GoodStarts(ls, n) = {} THEN [id |-> "", model |-> ""]
  ELSE LET q == CHOOSE x \in GoodStarts(ls, n) : \A y \in GoodStarts(ls, n) : y <= x
       IN  [id |-> ls[q].p.msgID, model |-> ls[q].p.msgModel]

\* C30: the decoder's captured id and model are those of the most recent
\* message_start consumed (empty when none was), whatever other events were
\* consumed since; every chunk carries the id and model captured when it was
\* emitted, and no chunk is emitted for a message_start event.
C30_CapturedEnvelope ==
  /\ dec.msgID = LastStart(lines, pos).id
  /\ dec.model = LastStart(lines, pos).model
  /\ \A i \in 1..Len(results) :
        results[i].res.kind = "chunk" =>
          /\ results[i].res.chunk.id = LastStart(lines, results[i].to).id
          /\ results[i].res.chunk.model = LastStart(lines, results[i].to).model
          /\ ~IsEventData(lines, results[i].to, "message_start")

\* two message_start events with different envelopes and then a chunk, which
\* carries the id and model of the second
C30_Witness ==
  /\ Len(results) >= 1
  /\ results[1].res.kind = "chunk"
  /\ results[1].res.chunk.id = "msg_2" /\ results[1].res.chunk.model = "claude-b"
  /\ Cardinality(GoodStarts(lines, results[1].to)) = 2
  /\ lines[2].p.msgID = "msg_1"

-----------------------------------------------------------------------------
(* The answers of the server.  Each call variant is run against every       *)
(* answer: no answer at all, a status of 200 or not, a body that cannot be  *)
(* read or is no JSON object, dialect A bodies with and without choices,    *)
(* error object and consistent usage, dialect B bodies with every content   *)
(* list of Turns and lists with a block of another type, and dialect B      *)
(* error envelopes.                                                         *)

Responses ==
  LET choice == [index |-> 0, message |-> TextMessage(RoleAssistant, "Hello!"),
                 finishReason |-> "stop"]
      usage(total) == [ZeroBody.usage EXCEPT !.promptTokens = 10, !.completionTokens = 5,
                                             !.totalTokens = total]
      failure == [code |-> "invalid_api_key", message |-> "Invalid API key",
                  type |-> "invalid_request_error"]
      chat == [ZeroBody EXCEPT !.id = "chatcmpl-123", !.object = "chat.completion",
                               !.model = "gpt-4o"]
      bodiesA ==
        { [chat EXCEPT !.text = "choices", !.choices = << choice >>, !.usage = usage(15)],
          [chat EXCEPT !.text = "total 0", !.choices = << choice >>, !.usage = usage(0)],
          [chat EXCEPT !.text = "two choices", !.choices = << choice, choice >>,
                       !.usage = usage(15)],
          [chat EXCEPT !.text = "no choices", !.usage = usage(15)],
          [chat EXCEPT !.text = "error, no choices", !.errorNil = FALSE, !.error = failure],
          [chat EXCEPT !.text = "error and choices", !.choices = << choice >>,
                       !.errorNil = FALSE, !.error = failure],
          [ZeroBody EXCEPT !.raw = "bad", !.text = "<html>" ],
          ZeroBody }
      turnOf(t) == ResponseOfTurn(t)
      other == [type |-> "thinking", text |-> "", id |-> "", name |-> "", input |-> ""]
      message(content, stop) ==
        [ZeroBody EXCEPT !.text = "message", !.id = "msg_1", !.type = "message",
                         !.model = "claude", !.content = content, !.stopReason = stop,
                         !.usage = [ZeroBody.usage EXCEPT !.inputTokens = 10,
                                                          !.outputTokens = 5]]
      tool(k) == turnOf(<< ToolUseBlock("toolu_1", "get_weather", << "{\"city\":\"NYC\"}" >>),
                           ToolUseBlock("toolu_2", "lookup", << >>) >>).content[k]
      bodiesB ==
        { message(turnOf(t).content, turnOf(t).stopReason) : t \in Turns }
        \cup { message(<< other, tool(1), other, tool(2) >>, "tool_use"),
               message(<< other >>, "end_turn"),
               message(<< >>, "end_turn") }
      envelope(type, msg) ==
        [ZeroBody EXCEPT !.text = "envelope", !.type = "error", !.errorNil = FALSE,
                         !.error = [code |-> "", message |-> msg, type |-> type]]
      envelopes == { envelope("rate_limit_error", "Rate limit exceeded"),
                     envelope("rate_limit_error", ""),
                     envelope("", "Overloaded") }
  IN  { [status |-> st, sendErr |-> FALSE, readErr |-> rd, body |-> b] :
          st \in {200, 429, 500}, rd \in BOOLEAN,
          b \in bodiesA \cup bodiesB \cup envelopes }
      \cup { [status |-> 0, sendErr |-> TRUE, readErr |-> FALSE, body |-> ZeroBody] }

InitResponse ==
  /\ req = [ZeroChatRequest EXCEPT !.model = "m",
                                   !.messages = << TextMessage(RoleUser, "Hi") >>]
  /\ resp \in Responses
  /\ sent = NoValue /\ got = NoValue
  /\ acc = ZeroMessage /\ steps = << >>
  /\ NoStream

SpecResponse == InitResponse /\ [][NextRequest]_vars

\* the call variant v has returned after the server answered
Answered(v) ==
  /\ sent # NoValue /\ sent.variant = v /\ sent.err = ""
  /\ ~resp.sendErr

\* the body of the answer was read and decodes
Decodes == ~resp.readErr /\ resp.body.raw = "obj"

\* C21: ChatCompletion returns a response or an error, never both and never
\* neither; a response has at least one choice; a status other than 200
\* gives an APIError with that status, then a body that does not decode a
\* decode error, then an error object an APIError with the object's code,
\* message and type (whatever the choices), then zero choices
\* ErrEmptyResponse, and only then the decoded response.
C21_ChecksInOrder ==
  Answered("ChatCompletion") =>
    /\ (got.resp = NoValue) # (got.err = NoValue)
    /\ got.resp # NoValue => Len(got.resp.choices) > 0
    /\ IF resp.status # 200
         THEN got.err.kind = "APIError" /\ got.err.statusCode = resp.status
       ELSE IF ~Decodes THEN got.err = [kind |-> "decode response"]
       ELSE IF ~resp.body.errorNil
         THEN got.err = [ZeroAPIError EXCEPT !.statusCode = 200,
                                             !.code = resp.body.error.code,
                                             !.message = resp.body.error.message,
                                             !.type = resp.body.error.type]
       ELSE IF resp.body.choices = << >> THEN got.err = [kind |-> "ErrEmptyResponse"]
       ELSE /\ got.err = NoValue
            /\ got.resp.choices = resp.body.choices
            /\ got.resp.id = resp.body.id /\ got.resp.model = resp.body.model

\* a 200 body with an error object and zero choices gave the APIError
C21_Witness ==
  /\ Answered("ChatCompletion") /\ resp.status = 200 /\ Decodes
  /\ ~resp.body.errorNil /\ resp.body.choices = << >>
  /\ got.resp = NoValue /\ got.err.kind = "APIError"
  /\ got.err.code = "invalid_api_key"

\* a 200 body without error object and with zero choices gave ErrEmptyResponse
C21_Empty ==
  /\ Answered("ChatCompletion") /\ resp.status = 200 /\ Decodes
  /\ resp.body.errorNil /\ resp.body.choices = << >> /\ resp.body.id = "chatcmpl-123"
  /\ got = [resp |-> NoValue, err |-> [kind |-> "ErrEmptyResponse"]]

\* the tool_use blocks of a content list, in block order
ToolUses(blocks) == SelectSeq(blocks, LAMBDA b : b.type = "tool_use")

\* C22: the tool calls of the response AnthropicChatCompletion returns are
\* the tool_use blocks of the body in block order: the j-th of them (from
\* 0) gives the entry at j with Index j, the block's id and name, type
\* function and the block's input as arguments; no other block gives an
\* entry.
C22_ToolUseToToolCalls ==
  (Answered("AnthropicChatCompletion") /\ got.resp # NoValue) =>
    LET tus == ToolUses(resp.body.content)
        tcs == got.resp.choices[1].message.toolCalls
    IN  /\ Len(tcs) = Len(tus)
        /\ \A j \in 1..Len(tus) :
              tcs[j] = [index |-> j - 1, id |-> tus[j].id, type |-> "function",
                        name |-> tus[j].name, arguments |-> tus[j].input]

\* a body whose content is a block of another type, a tool_use block, a
\* block of another type and a second tool_use block: two tool calls, the
\* second with Index 1
C22_Witness ==
  /\ Answered("AnthropicChatCompletion") /\ got.resp # NoValue
  /\ Len(resp.body.content) = 4 /\ resp.body.content[1].type = "thinking"
  /\ Len(got.resp.choices[1].message.toolCalls) = 2
  /\ got.resp.choices[1].message.toolCalls[2].index = 1
  /\ got.resp.choices[1].message.toolCalls[2].id = "toolu_2"
  /\ got.resp.choices[1].message.toolCalls[1].arguments = "{\"city\":\"NYC\"}"

\* C23 as stated: every response returned without error by ChatCompletion or
\* AnthropicChatCompletion has TotalTokens = PromptTokens + CompletionTokens.
C23_TotalIsSum ==
  ((Answered("ChatCompletion") \/ Answered("AnthropicChatCompletion"))
     /\ got.resp # NoValue) =>
    got.resp.usage.totalTokens =
      got.resp.usage.promptTokens + got.resp.usage.completionTokens

\* C24 as stated: a status S other than 200 with a body that is an error
\* envelope of type T makes both dialect B variants return no response and
\* an APIError with StatusCode S and Type T.
C24_EnvelopeType ==
  ((Answered("AnthropicChatCompletion") \/ Answered("AnthropicChatCompletionStream"))
     /\ resp.status # 200 /\ Decodes
     /\ resp.body.type = "error" /\ ~resp.body.errorNil) =>
    /\ got.resp = NoValue
    /\ got.err.kind = "APIError"
    /\ got.err.statusCode = resp.status
    /\ got.err.type = resp.body.error.type

-----------------------------------------------------------------------------
(* The events of dialect B, one by one: bodies made of every kind of event  *)
(* of the decoder's table, content blocks and deltas of kinds the decoder   *)
(* does not translate, an event the table does not know, an event line      *)
(* without data line and a field line that is neither event nor data.       *)

MaxEventFrames == 3

EventFrames ==
  { MessageStartFrame,
    BlockStartFrame(1, "tool_use", "toolu_1", "get_weather"),
    BlockStartFrame(0, "text", "", ""),
    TextDeltaFrame(0, "Hi"),
    JsonDeltaFrame(1, "{}"),
    << EventLine("content_block_delta"),
       DataLine([ZeroJSON EXCEPT !.index = 0, !.dType = "thinking_delta", !.dText = "hm"]) >>,
    BlockStopFrame(0),
    MessageDeltaFrame("max_tokens"),
    MessageStopFrame,
    ErrorFrameB,
    << EventLine("ping"), DataLine([ZeroJSON EXCEPT !.msgID = "msg_9"]) >>,
    << EventLine("vendor_event"), DataLine(BadPayload) >>,
    << EventLine("ping") >>,
    << OtherLine >> }

InitEvents ==
  /\ dialect = "B"
  /\ lines \in Bodies(EventFrames, MaxEventFrames)
  /\ turn = NoTurn
  /\ InitCaller

SpecEvents == InitEvents /\ [][NextRecv]_vars

\* every event line of ls has its data line, on the next line
Paired(ls) ==
  \A q \in 1..Len(ls) : ls[q].k = "event" => (q < Len(ls) /\ ls[q + 1].k = "data")

\* the data lines consumed so far of the events named e whose payload decodes
EventsSeen(e) ==
  { q \in 1..pos : IsEventData(lines, q, e) /\ lines[q].p.raw = "obj" }

\* the calls that returned because of line q
ReturnedAt(q) == { i \in Calls : Decoded(i) /\ results[i].to = q }

\* line q made exactly one call return, with a chunk of one choice
OneChunk(q) ==
  /\ Cardinality(ReturnedAt(q)) = 1
  /\ \A i \in ReturnedAt(q) :
        results[i].res.kind = "chunk" /\ Len(results[i].res.chunk.choices) = 1

\* the choice of the chunk line q gave
ChoiceAt(q) == results[CHOOSE i \in ReturnedAt(q) : TRUE].res.chunk.choices[1]

ChunkCalls == { i \in Calls : results[i].res.kind = "chunk" }

GivesChunk(q) ==
  \/ q \in EventsSeen("content_block_start") /\ lines[q].p.cbType = "tool_use"
  \/ q \in EventsSeen("content_block_delta")
       /\ lines[q].p.dType \in {"text_delta", "input_json_delta"}
  \/ q \in EventsSeen("message_delta")

RECURSIVE NextField(_, _)
NextField(ls, q) ==
  IF q >= Len(ls) THEN 0
  ELSE IF ls[q + 1].k \in {"blank", "comment"} THEN NextField(ls, q + 1)
  ELSE q + 1

\* line q is an event line without a data line of its own
LoneEvent(ls, q) ==
  /\ ls[q].k = "event"
  /\ NextField(ls, q) = 0 \/ ls[NextField(ls, q)].k # "data"

Without(ls, q) == SubSeq(ls, 1, q - 1) \o SubSeq(ls, q + 1, Len(ls))

\* the calls made so far are those up to the first one at which Scan
\* returned false, none of them after a Close
ReceivedToEnd ==
  /\ results # << >>
  /\ \A i \in Calls :
        /\ results[i].res.kind # "closed"
        /\ (results[i].res.kind = "scanErr"
              \/ (results[i].res.kind = "eof" /\ ~results[i].res.term))
             <=> i = Len(results)

\* C35 as stated: the successive Recv calls on a body return the same
\* results as on the body without one of its event lines that have no data
\* line of their own.
C35_LoneEventIgnored ==
  ReceivedToEnd =>
    \A q \in 1..Len(lines) :
       LoneEvent(lines, q) =>
         [i \in Calls |-> results[i].res] = RecvAll(dialect, Without(lines, q))

\* the event names of the decoder's table that are not ignored
HandledEvents ==
  { "message_start", "content_block_start", "content_block_delta", "message_delta",
    "message_stop", "error" }

\* the data lines consumed so far of ping and content_block_stop events and
\* of events the table does not know
IgnoredSeen ==
  { q \in 2..pos : /\ lines[q].k = "data" /\ lines[q - 1].k = "event"
                   /\ lines[q - 1].e \notin HandledEvents }

-----------------------------------------------------------------------------
(* Streams that end without their terminator (checked under SpecRecv).      *)

\* a body with no terminator, no malformed payload and no error object
\* whose records are complete (dialect B: every event line has its data
\* line)
Unterminated(d, ls) ==
  /\ \A q \in 1..Len(ls) :
        /\ ls[q].k = "data" => (ls[q].p.raw = "obj" /\ ~ls[q].p.hasError)
        /\ ls[q].k = "event" => ls[q].e \notin {"message_stop", "error"}
  /\ d = "B" => Paired(ls)

\* line q is the data line of a record that gives a chunk
ChunkRecord(d, ls, q) ==
  /\ ls[q].k = "data" /\ ls[q].p.raw = "obj"
  /\ IF d = "A" THEN ~ls[q].p.hasError
     ELSE \/ IsEventData(ls, q, "content_block_start") /\ ls[q].p.cbType = "tool_use"
          \/ IsEventData(ls, q, "content_block_delta")
               /\ ls[q].p.dType \in {"text_delta", "input_json_delta"}
          \/ IsEventData(ls, q, "message_delta")

\* the places of the first n chunk records at or after line q, in wire order
RECURSIVE ChunkRecords(_, _, _)
ChunkRecords(d, ls, q) ==
  IF q > Len(ls) THEN << >>
  ELSE (IF ChunkRecord(d, ls, q) THEN << q >> ELSE << >>) \o ChunkRecords(d, ls, q + 1)

\* the calls made before any Close deliver the chunk records in wire order,
\* one per call, and every call after them returns io.EOF at the end of the
\* body
DeliversThenEOF ==
  LET qs == ChunkRecords(dialect, lines, 1)
  IN  \A i \in Calls : results[i].res # ErrStreamClosed =>
         /\ i <= Len(qs) =>
               /\ results[i].res.kind = "chunk" /\ results[i].to = qs[i]
               /\ dialect = "A" =>
                    results[i].res = ChunkResult(StreamChunkOf(lines[qs[i]]))
         /\ i > Len(qs) =>
               /\ results[i].res = EOFResult(FALSE)
               /\ results[i].to = Len(lines)

C37_WitnessEmpty ==
  /\ lines = << >> /\ Len(results) = 1 /\ results[1].res = EOFResult(FALSE)

\* the errors a Recv returns
RecvErrors == {"eof", "closed", "decodeErr", "apiErr", "scanErr"}

\* C38: every Recv returns either a chunk with a nil error or a nil chunk
\* with one of io.EOF, ErrStreamClosed, a decode error, an APIError or a
\* scanner error; never neither and never both.
C38_ChunkXorError ==
  \A i \in Calls :
     LET r == results[i].res
     IN  \/ /\ r.kind = "chunk"
            /\ r = ChunkResult(r.chunk)
         \/ /\ r.kind \in RecvErrors
            /\ r.chunk = ZeroChunk

\* a chunk, then a decode error or an APIError, then ErrStreamClosed after
\* a Close
C38_Witness ==
  /\ Len(results) = 3
  /\ results[1].res.kind = "chunk"
  /\ IsError(results[2])
  /\ results[3].res = ErrStreamClosed

-----------------------------------------------------------------------------
(* The tool-call list as an arena addressed by index, and what AppendDelta  *)
(* leaves alone (checked under SpecDelta).                                  *)

\* every call so far is an AppendDelta whose tool-call indices are all
\* non-negative
OnlyDeltas ==
  \A i \in 1..Len(steps) :
     /\ steps[i].op = "AppendDelta"
     /\ \A j \in 1..Len(steps[i].delta.toolCalls) : steps[i].delta.toolCalls[j].index >= 0

\* the tool-call indices of the deltas merged so far
IndicesSeen ==
  UNION { { steps[i].delta.toolCalls[j].index : j \in 1..Len(steps[i].delta.toolCalls) } :
            i \in DeltaSteps }

\* one plus the largest member of a set of indices, 0 for the empty set
OnePastLargest(S) ==
  IF S = {} THEN 0 ELSE 1 + CHOOSE k \in S : \A l \in S : l <= k

\* C39: from a Message without tool calls, after AppendDelta calls with
\* non-negative indices only, entry i of the list has Index i, the list has
\* one more entry than the largest index seen (none when no index was
\* seen), and no call made the list shorter.
C39_ArenaByIndex ==
  (steps # << >> /\ steps[1].before.toolCalls = << >> /\ OnlyDeltas) =>
     /\ \A k \in 1..Len(acc.toolCalls) : acc.toolCalls[k].index = k - 1
     /\ Len(acc.toolCalls) = OnePastLargest(IndicesSeen)
     /\ \A i \in DeltaSteps :
           Len(steps[i].after.toolCalls) >= Len(steps[i].before.toolCalls)

\* deltas at index 0, then 2, then 1 twice: one entry, then three, then
\* still three, each with its position as Index
C39_Witness ==
  /\ OnlyDeltas /\ Len(steps) = 3
  /\ steps[1].before.toolCalls = << >>
  /\ Len(steps[1].after.toolCalls) = 1
  /\ Len(steps[2].after.toolCalls) = 3
  /\ steps[3].delta.toolCalls # << >> /\ steps[3].delta.toolCalls[1].index = 1
  /\ Len(acc.toolCalls) = 3
  /\ acc.toolCalls[2].index = 1 /\ acc.toolCalls[2].arguments = "{}"

\* the indices named by the entries of a delta that AppendDelta gets to
Named(dtcs) == { dtcs[j].index : j \in Reached(dtcs) }

\* C40: AppendDelta leaves Role, ToolCallID and the content parts of the
\* message as they were, also when the delta carries a role; an entry that
\* existed at an index the delta does not name is unchanged, and an entry
\* the call appended at an index the delta does not name is an empty
\* placeholder with its position as Index.  (The delta is an argument the
\* operator only reads.)
C40_FrameOfAppendDelta ==
  \A i \in DeltaSteps :
     LET b == steps[i].before
         a == steps[i].after
         named == Named(steps[i].delta.toolCalls)
     IN  /\ a.role = b.role
         /\ a.toolCallID = b.toolCallID
         /\ a.content.parts = b.content.parts
         /\ a.content.partsNil = b.content.partsNil
         /\ Len(a.toolCalls) >= Len(b.toolCalls)
         /\ \A k \in 0..(Len(a.toolCalls) - 1) :
               k \notin named =>
                  a.toolCalls[k + 1] = IF k < Len(b.toolCalls) THEN b.toolCalls[k + 1]
                                       ELSE [ZeroToolCall EXCEPT !.index = k]

\* a user Message gets a tool call at index 0, then a delta carrying the
\* assistant role, then a delta at index 2: the role is still user and the
\* entry at index 0 is as the first delta left it
C40_Witness ==
  /\ Len(steps) = 3 /\ DeltaSteps = {1, 2, 3}
  /\ steps[1].before.role = "user"
  /\ steps[2].delta.role = RoleAssistant
  /\ steps[3].delta.toolCalls # << >> /\ steps[3].delta.toolCalls[1].index = 2
  /\ acc.role = "user"
  /\ Len(acc.toolCalls) = 3 /\ Len(steps[1].after.toolCalls) = 1
  /\ acc.toolCalls[1] = steps[1].after.toolCalls[1]
  /\ acc.toolCalls[1].id = "call_1"

====
